---- MODULE Spec2Model ----
(***************************************************************************)
(* Time tracking and invoicing system: the time entry core (service,      *)
(* routes and in-memory store) and the invoice number generator.          *)
(*                                                                         *)
(* Numbers are scaled integers: a rate is in cents per hour, a duration   *)
(* in hundredths of an hour, an amount in cents, a time in milliseconds   *)
(* (the process starts at StartTime, early enough for 32-bit arithmetic).  *)
(* JavaScript values that may be undefined or NaN are tagged tuples; an    *)
(* object is a record holding the keys it has.                             *)
(***************************************************************************)
EXTENDS Integers, Sequences, FiniteSets, TLC

VARIABLES
    timeEntries,     \* MockDatabase.timeEntries
    entryCounter,    \* MockDatabase.entryCounter
    now,             \* the wall clock read by new Date()
    result,          \* the outcome of the call that just ran
    call,            \* the call that just ran
    auditLog,        \* the audit log entries emitted so far
    invoiceCounter,  \* invoice.service invoiceCounter
    year,            \* new Date().getFullYear() as seen by the generator
    issued,          \* the numbers returned so far, with the set each call was given
    invoice,         \* the invoice returned by the last generateInvoice call
    probe,           \* a call of a pure function: its arguments and what it returned
    seed,            \* MockDatabase's seeded collections, its initialized flag and
                     \* the initialize() calls under way
    assigned,        \* the ids that createTimeEntry has given out so far
    auth             \* the frontend's auth store, localStorage's token and the
                     \* requests in flight

vars == <<timeEntries, entryCounter, now, result, call, auditLog,
          invoiceCounter, year, issued, invoice, probe, seed, assigned, auth>>
otherVars == <<seed, assigned, auth>>
entryVars == <<timeEntries, entryCounter, now, result, call, auditLog>>
invoiceVars == <<invoiceCounter, year, issued, invoice>>

----------------------------------------------------------------------------
(* Bounds of the model *)

MaxEntries == 1
MaxDayTicks == 1
MaxMsTicks == 1
MaxInvoices == 3
MaxYearTicks == 1
MaxSnapshots == 1

----------------------------------------------------------------------------
(* JavaScript values *)

Undefined == <<"undefined">>
NaN == <<"NaN">>
InvalidDate == <<"Invalid Date">>
Num(n) == <<"number", n>>
Bool(b) == <<"boolean", b>>
Str(s) == <<"string", s>>
DateAt(ms) == <<"date", ms>>

IsNum(v) == Len(v) = 2 /\ v[1] = "number"
IsBool(v) == Len(v) = 2 /\ v[1] = "boolean"
IsDate(v) == Len(v) = 2 /\ v[1] = "date"

\* a ?? b
Coalesce(a, b) == IF a = Undefined THEN b ELSE a

\* Number(v) of a stored number or of undefined
ToNumber(v) == IF IsNum(v) THEN v ELSE NaN

\* !v
Falsy(v) == v = Undefined \/ v = Bool(FALSE) \/ v = NaN \/ v = Str("")

----------------------------------------------------------------------------
(* Users and roles, from the seed data and the token payload *)

Users == {"user-admin", "user-john", "user-jane"}
Role(u) == IF u = "user-admin" THEN "administrator" ELSE "employee"
Employees == {u \in Users : Role(u) = "employee"}

----------------------------------------------------------------------------
(* Error codes *)

OK == "OK"
VALIDATION_ERROR == "VALIDATION_ERROR"
AUTHENTICATION_REQUIRED == "AUTHENTICATION_REQUIRED"
AUTHORIZATION_DENIED == "AUTHORIZATION_DENIED"
RESOURCE_NOT_FOUND == "RESOURCE_NOT_FOUND"
MODIFICATION_WINDOW_EXPIRED == "MODIFICATION_WINDOW_EXPIRED"

----------------------------------------------------------------------------
(* Validators *)

Valid == [valid |-> TRUE]
Invalid(msg) == [valid |-> FALSE, error |-> msg]

validateRate(rate) ==
    IF ~IsNum(rate) THEN Invalid("Rate must be a numeric value")
    ELSE IF rate[2] <= 0 THEN Invalid("Rate must be a positive number")
    ELSE Valid

validateDuration(duration) ==
    IF ~IsNum(duration) THEN Invalid("Duration must be a numeric value")
    ELSE IF duration[2] <= 0 THEN Invalid("Duration must be a positive number")
    ELSE IF duration[2] > 2400 THEN Invalid("Duration cannot exceed 24 hours")
    ELSE Valid

DayMs == 24 * 60 * 60 * 1000

\* The calendar day of a timestamp: what setHours(0, 0, 0, 0) keeps of it
DayOf(ms) == ms \div DayMs

\* new Date(s) of the texts given here: a date alone is the start of that day, a
\* date with a time that instant, any other text no date
NewDate(s) ==
    CASE s = "1970-01-21" -> DateAt(20 * DayMs)
      [] s = "1970-01-21T23:59:59.999Z" -> DateAt(21 * DayMs - 1)
      [] s = "1970-01-22" -> DateAt(21 * DayMs)
      [] s = "1969-12-21" -> DateAt((-11) * DayMs)
      [] OTHER -> InvalidDate

IsStr(v) == Len(v) = 2 /\ v[1] = "string"

\* date instanceof Date ? date : new Date(date)
DateObj(date) == IF IsStr(date) THEN NewDate(date[2]) ELSE date

\* A validation that refuses the thirtieth day before the reference date
validateActivityDateUnder30(date, referenceDate) ==
    IF ~IsDate(date) /\ date # InvalidDate /\ ~IsStr(date)
    THEN Invalid("Date must be a valid date value")
    ELSE IF DateObj(date) = InvalidDate
    THEN Invalid("Date must be a valid calendar date")
    ELSE IF DayOf(DateObj(date)[2]) <= DayOf(referenceDate) - 30
    THEN Invalid("Date cannot be more than 30 days in the past")
    ELSE IF DayOf(DateObj(date)[2]) * DayMs > DayOf(referenceDate) * DayMs + (DayMs - 1)
    THEN Invalid("Date cannot be in the future")
    ELSE Valid

\* thirtyDaysAgo is the start of day DayOf(referenceDate) - 30, normalizedDate the
\* start of day DayOf(date), today the last millisecond of day DayOf(referenceDate):
\* the comparisons of the timestamps are comparisons of the days
\* (a date is a Date object, valid or not, or a text, or a value that is neither)
validateActivityDate(date, referenceDate) ==
    IF ~IsDate(date) /\ date # InvalidDate /\ ~IsStr(date)
    THEN Invalid("Date must be a valid date value")
    ELSE IF DateObj(date) = InvalidDate
    THEN Invalid("Date must be a valid calendar date")
    ELSE IF DayOf(DateObj(date)[2]) < DayOf(referenceDate) - 30
    THEN Invalid("Date cannot be more than 30 days in the past")
    ELSE IF DayOf(DateObj(date)[2]) * DayMs > DayOf(referenceDate) * DayMs + (DayMs - 1)
    THEN Invalid("Date cannot be in the future")
    ELSE Valid

----------------------------------------------------------------------------
(* Time entry service: pure functions *)

\* Math.round(x / 100) for an integer x: the nearest integer, a half rounded up
RoundDiv100(x) == (x + 50) \div 100

\* An amount that disregards the billable flag
calculateAmountOfHours(rate, duration, billable) ==
    IF ~IsNum(rate) \/ ~IsNum(duration) THEN NaN
    ELSE Num(RoundDiv100(rate[2] * duration[2]))

calculateAmount(rate, duration, billable) ==
    IF Falsy(billable) THEN Num(0)
    ELSE IF ~IsNum(rate) \/ ~IsNum(duration) THEN NaN
    ELSE Num(RoundDiv100(rate[2] * duration[2]))

twentyFourHoursMs == 24 * 60 * 60 * 1000

\* A window that closes one millisecond earlier
canModifyEntryBefore(entryCreatedAt, currentTime) ==
    currentTime - entryCreatedAt < twentyFourHoursMs

canModifyEntry(entryCreatedAt, currentTime) ==
    currentTime - entryCreatedAt <= twentyFourHoursMs

\* An ownership test that every user passes
isAnyUser(entryEmployeeId, userId) == TRUE

isEntryOwner(entryEmployeeId, userId) == entryEmployeeId = userId

canUserModifyEntry(entryEmployeeId, entryCreatedAt, userId, currentTime) ==
    isEntryOwner(entryEmployeeId, userId) /\ canModifyEntry(entryCreatedAt, currentTime)

----------------------------------------------------------------------------
(* The store *)

EntryId(n) == <<"entry", n>>

\* timeEntries.findIndex(e => e.id === id), 0 when there is none
findIndex(entries, id) ==
    IF \E i \in 1..Len(entries) : entries[i].id = id
    THEN CHOOSE i \in 1..Len(entries) :
            /\ entries[i].id = id
            /\ \A j \in 1..(i - 1) : entries[j].id # id
    ELSE 0

\* findTimeEntryById: the entry in a sequence of length one, or the empty sequence
findTimeEntryById(entries, id) ==
    IF findIndex(entries, id) = 0 THEN <<>> ELSE <<entries[findIndex(entries, id)]>>

\* obj.key of an object that may lack the key
Get(obj, key) == IF key \in DOMAIN obj THEN obj[key] ELSE Undefined

\* { ...entry, ...data }: a key that data holds wins, also when its value is undefined
Merge(entry, data) ==
    [f \in DOMAIN entry \cup DOMAIN data |->
        IF f \in DOMAIN data THEN data[f] ELSE entry[f]]

\* An update that merges the data into every stored entry
dbUpdateEveryTimeEntry(entries, id, data) ==
    IF findIndex(entries, id) = 0 THEN entries
    ELSE [i \in 1..Len(entries) |-> Merge(entries[i], data)]

dbUpdateTimeEntry(entries, id, data) ==
    IF findIndex(entries, id) = 0 THEN entries
    ELSE [entries EXCEPT ![findIndex(entries, id)] = Merge(@, data)]

dbDeleteTimeEntry(entries, id) ==
    IF findIndex(entries, id) = 0 THEN entries
    ELSE SubSeq(entries, 1, findIndex(entries, id) - 1)
         \o SubSeq(entries, findIndex(entries, id) + 1, Len(entries))

\* A create that numbers the new entry by the entries stored
dbCreateTimeEntryByLength(entries, counter, entry, createdAt) ==
    Append(entries,
           [id |-> EntryId(Len(entries) + 1),
            employeeId |-> entry.employeeId,
            clientId |-> entry.clientId,
            serviceId |-> entry.serviceId,
            activityDate |-> entry.activityDate,
            memo |-> entry.memo,
            rate |-> entry.rate,
            duration |-> entry.duration,
            billable |-> entry.billable,
            amount |-> entry.amount,
            status |-> entry.status,
            createdAt |-> createdAt])

dbCreateTimeEntry(entries, counter, entry, createdAt) ==
    Append(entries,
           [id |-> EntryId(counter + 1),
            employeeId |-> entry.employeeId,
            clientId |-> entry.clientId,
            serviceId |-> entry.serviceId,
            activityDate |-> entry.activityDate,
            memo |-> entry.memo,
            rate |-> entry.rate,
            duration |-> entry.duration,
            billable |-> entry.billable,
            amount |-> entry.amount,
            status |-> entry.status,
            createdAt |-> createdAt])

\* a && b for a filter value a: an absent filter is falsy
Truthy(v) == ~Falsy(v)

\* Array.prototype.sort with (a, b) => b.activityDate - a.activityDate: stable, the
\* latest activity date first
RECURSIVE InsertByDateDesc(_, _)
InsertByDateDesc(sorted, e) ==
    IF sorted = <<>> THEN <<e>>
    ELSE IF Head(sorted).activityDate[2] >= e.activityDate[2]
    THEN <<Head(sorted)>> \o InsertByDateDesc(Tail(sorted), e)
    ELSE <<e>> \o sorted

RECURSIVE SortByDateDesc(_)
SortByDateDesc(entries) ==
    IF entries = <<>> THEN <<>>
    ELSE InsertByDateDesc(SortByDateDesc(SubSeq(entries, 1, Len(entries) - 1)),
                          entries[Len(entries)])

\* getAllTimeEntries (the employeeId of a filter is a string value, that of an
\* entry its text)
dbGetAllTimeEntries(entries, filters) ==
    LET keep(e) ==
            /\ ~(Truthy(Get(filters, "employeeId"))
                 /\ Str(e.employeeId) # Get(filters, "employeeId"))
            /\ ~(Truthy(Get(filters, "clientId")) /\ e.clientId # Get(filters, "clientId"))
            /\ ~(Truthy(Get(filters, "startDate"))
                 /\ e.activityDate[2] < Get(filters, "startDate")[2])
            /\ ~(Truthy(Get(filters, "endDate"))
                 /\ e.activityDate[2] > Get(filters, "endDate")[2])
            /\ ~(Get(filters, "billable") # Undefined
                 /\ e.billable # Get(filters, "billable"))
    IN  SortByDateDesc(SelectSeq(entries, keep))

dbGetTimeEntriesForUser(entries, userId, filters) ==
    LET keep(e) ==
            /\ e.employeeId = userId
            /\ ~(Truthy(Get(filters, "clientId")) /\ e.clientId # Get(filters, "clientId"))
            /\ ~(Truthy(Get(filters, "startDate"))
                 /\ e.activityDate[2] < Get(filters, "startDate")[2])
            /\ ~(Truthy(Get(filters, "endDate"))
                 /\ e.activityDate[2] > Get(filters, "endDate")[2])
            /\ ~(Get(filters, "billable") # Undefined
                 /\ e.billable # Get(filters, "billable"))
    IN  SortByDateDesc(SelectSeq(entries, keep))

----------------------------------------------------------------------------
(* Requests *)

EntryIds == {EntryId(n) : n \in 1..MaxEntries}

\* The time at which the process starts
StartTime == 20 * DayMs

InA ==
    [clientId |-> Str("client-acme"), serviceId |-> Str("service-consulting"),
     activityDate |-> DateAt(StartTime), memo |-> Str("workshop"),
     rate |-> Num(1050), duration |-> Num(25), billable |-> Bool(TRUE)]

InB ==
    [clientId |-> Str("client-techstart"), serviceId |-> Str("service-training"),
     activityDate |-> DateAt(StartTime - 15 * DayMs - 15 * DayMs),
     rate |-> Num(3333), duration |-> Num(2400), billable |-> Bool(FALSE)]

CreateInputs ==
    {InA, InB,
     [InA EXCEPT !.rate = Num(0), !.duration = Num(2401), !.activityDate = InvalidDate],
     [InA EXCEPT !.duration = Num(0), !.activityDate = DateAt(StartTime + 2 * DayMs)],
     [InB EXCEPT !.activityDate = DateAt(StartTime - 15 * DayMs - 16 * DayMs)]}

UpdateInputs ==
    {[rate |-> Num(3333)],
     [billable |-> Bool(FALSE)],
     [rate |-> Undefined],
     [rate |-> Num(0), duration |-> Num(2401), activityDate |-> InvalidDate],
     [duration |-> Num(0), activityDate |-> DateAt(StartTime + 2 * DayMs)]}

StatusInputs == {"pending", "approved", "rejected", "archived"}

NoDetails == <<>>

\* What the caller of an operation gets: the code and the details of the ApiError
\* thrown, or OK
Outcome(op, code, details) == [op |-> op, code |-> code, details |-> details]

NoResult == Outcome("none", OK, NoDetails)

\* The call just made: who asked, for which entry, with what input, and the entry
\* as it was stored before the call (a sequence of length one, or empty)
Call(user, id, input) ==
    [user |-> user, id |-> id, input |-> input,
     old |-> IF id = Undefined THEN <<>> ELSE findTimeEntryById(timeEntries, id)]

NoCall == [user |-> "", id |-> Undefined, input |-> <<>>, old |-> <<>>]

\* The generateInvoice call just made: its input and the entries it was given
InvoiceCall(input, entries) ==
    [user |-> "", id |-> Undefined, input |-> input, old |-> <<>>,
     entries |-> entries]

\* A call of a pure function that has not returned yet, and one that has
NotReturned == <<"not returned">>
Probe(fn, args) == [fn |-> fn, args |-> args, returned |-> FALSE, out |-> NotReturned]
NoProbe == Probe("none", <<>>)

\* The call under way returns
Return(fn, out) ==
    /\ probe.fn = fn
    /\ ~probe.returned
    /\ probe' = [probe EXCEPT !.returned = TRUE, !.out = out]
    /\ UNCHANGED <<timeEntries, entryCounter, now, result, call, auditLog,
                   invoiceCounter, year, issued, invoice, otherVars>>

----------------------------------------------------------------------------
(* Time entry service: operations *)

createTimeEntry(userId, input) ==
    LET rateValidation == validateRate(Get(input, "rate"))
        durationValidation == validateDuration(Get(input, "duration"))
        dateValidation == validateActivityDate(Get(input, "activityDate"), now)
        amount == calculateAmount(Get(input, "rate"), Get(input, "duration"),
                                  Get(input, "billable"))
        Throw(details) ==
            /\ result' = Outcome("create", VALIDATION_ERROR, details)
            /\ UNCHANGED <<timeEntries, entryCounter>>
    IN  /\ IF ~rateValidation.valid
           THEN Throw([rate |-> <<rateValidation.error>>])
           ELSE IF ~durationValidation.valid
           THEN Throw([duration |-> <<durationValidation.error>>])
           ELSE IF ~dateValidation.valid
           THEN Throw([activityDate |-> <<dateValidation.error>>])
           ELSE /\ timeEntries' =
                      dbCreateTimeEntry(timeEntries, entryCounter,
                          [employeeId |-> userId,
                           clientId |-> Get(input, "clientId"),
                           serviceId |-> Get(input, "serviceId"),
                           activityDate |-> Get(input, "activityDate"),
                           memo |-> Get(input, "memo"),
                           rate |-> Get(input, "rate"),
                           duration |-> Get(input, "duration"),
                           billable |-> Get(input, "billable"),
                           amount |-> amount,
                           status |-> "pending"],
                          now)
                /\ entryCounter' = entryCounter + 1
                /\ result' = Outcome("create", OK, NoDetails)
        /\ UNCHANGED <<now, auditLog>>

updateTimeEntry(userId, entryId, input) ==
    LET found == findTimeEntryById(timeEntries, entryId)
        entry == found[1]
        rateValidation == validateRate(Get(input, "rate"))
        durationValidation == validateDuration(Get(input, "duration"))
        dateValidation == validateActivityDate(Get(input, "activityDate"), now)
        newRate == Coalesce(Get(input, "rate"), ToNumber(entry.rate))
        newDuration == Coalesce(Get(input, "duration"), ToNumber(entry.duration))
        newBillable == Coalesce(Get(input, "billable"), entry.billable)
        amount == calculateAmount(newRate, newDuration, newBillable)
        Throw(code, details) ==
            /\ result' = Outcome("update", code, details)
            /\ UNCHANGED timeEntries
    IN  /\ IF found = <<>>
           THEN Throw(RESOURCE_NOT_FOUND, NoDetails)
           ELSE IF ~canUserModifyEntry(entry.employeeId, entry.createdAt, userId, now)
           THEN IF ~isEntryOwner(entry.employeeId, userId)
                THEN Throw(AUTHORIZATION_DENIED, NoDetails)
                ELSE Throw(MODIFICATION_WINDOW_EXPIRED, NoDetails)
           ELSE IF Get(input, "rate") # Undefined /\ ~rateValidation.valid
           THEN Throw(VALIDATION_ERROR, [rate |-> <<rateValidation.error>>])
           ELSE IF Get(input, "duration") # Undefined /\ ~durationValidation.valid
           THEN Throw(VALIDATION_ERROR, [duration |-> <<durationValidation.error>>])
           ELSE IF Get(input, "activityDate") # Undefined /\ ~dateValidation.valid
           THEN Throw(VALIDATION_ERROR, [activityDate |-> <<dateValidation.error>>])
           ELSE /\ timeEntries' =
                      dbUpdateTimeEntry(timeEntries, entryId,
                                        Merge(input, [amount |-> amount]))
                /\ result' = Outcome("update", OK, NoDetails)
        /\ UNCHANGED <<entryCounter, now, auditLog>>

\* A delete that removes the entry before it looks at the requester
deleteThenCheck(userId, entryId) ==
    LET found == findTimeEntryById(timeEntries, entryId)
        entry == found[1]
        code == IF found = <<>> THEN RESOURCE_NOT_FOUND
                ELSE IF canUserModifyEntry(entry.employeeId, entry.createdAt, userId, now)
                THEN OK
                ELSE IF ~isEntryOwner(entry.employeeId, userId)
                THEN AUTHORIZATION_DENIED
                ELSE MODIFICATION_WINDOW_EXPIRED
    IN  /\ timeEntries' = dbDeleteTimeEntry(timeEntries, entryId)
        /\ result' = Outcome("delete", code, NoDetails)
        /\ UNCHANGED <<entryCounter, now, auditLog>>

deleteTimeEntry(userId, entryId) ==
    LET found == findTimeEntryById(timeEntries, entryId)
        entry == found[1]
        Throw(code) ==
            /\ result' = Outcome("delete", code, NoDetails)
            /\ UNCHANGED timeEntries
    IN  /\ IF found = <<>>
           THEN Throw(RESOURCE_NOT_FOUND)
           ELSE IF ~canUserModifyEntry(entry.employeeId, entry.createdAt, userId, now)
           THEN IF ~isEntryOwner(entry.employeeId, userId)
                THEN Throw(AUTHORIZATION_DENIED)
                ELSE Throw(MODIFICATION_WINDOW_EXPIRED)
           ELSE /\ timeEntries' = dbDeleteTimeEntry(timeEntries, entryId)
                /\ result' = Outcome("delete", OK, NoDetails)
        /\ UNCHANGED <<entryCounter, now, auditLog>>

----------------------------------------------------------------------------
(* Routes *)

\* A middleware that lets every authenticated user pass
passMiddleware(user) == OK

adminMiddleware(user) ==
    IF Role(user) # "administrator" THEN AUTHORIZATION_DENIED ELSE OK

\* A status route that accepts one value more
StatusesWithArchived == {"pending", "approved", "rejected", "archived"}

\* The values the status route accepts
ValidStatuses == {"pending", "approved", "rejected"}

\* PATCH /api/time-entries/:id/status
patchStatus(user, entryId, status) ==
    LET found == findTimeEntryById(timeEntries, entryId)
        input == [status |-> status]
        Throw(code, details) ==
            /\ result' = Outcome("status", code, details)
            /\ UNCHANGED timeEntries
    IN  /\ IF adminMiddleware(user) # OK
           THEN Throw(adminMiddleware(user), NoDetails)
           ELSE IF status \notin ValidStatuses
           THEN Throw(VALIDATION_ERROR,
                      [status |-> <<"Status must be pending, approved, or rejected">>])
           ELSE IF found = <<>>
           THEN Throw(RESOURCE_NOT_FOUND, NoDetails)
           ELSE /\ timeEntries' = dbUpdateTimeEntry(timeEntries, entryId, input)
                /\ result' = Outcome("status", OK, NoDetails)
        /\ UNCHANGED <<entryCounter, now, auditLog>>

\* What the caller of GET /api/time-entries gets
Listing(entries) ==
    [op |-> "list", code |-> OK, details |-> NoDetails, entries |-> entries]

\* A listing that honours the employeeId filter of every requester
getTimeEntriesAsAsked(user, filters) ==
    /\ result' = Listing(IF Get(filters, "employeeId") # Str(user)
                         THEN dbGetAllTimeEntries(timeEntries, filters)
                         ELSE dbGetTimeEntriesForUser(timeEntries, user, filters))
    /\ UNCHANGED <<timeEntries, entryCounter, now, auditLog>>

\* GET /api/time-entries, for an authenticated user and a query that the schema
\* accepts
getTimeEntries(user, filters) ==
    /\ result' = Listing(IF Role(user) = "administrator"
                            /\ Get(filters, "employeeId") # Str(user)
                         THEN dbGetAllTimeEntries(timeEntries, filters)
                         ELSE dbGetTimeEntriesForUser(timeEntries, user, filters))
    /\ UNCHANGED <<timeEntries, entryCounter, now, auditLog>>

----------------------------------------------------------------------------
(* The clock *)

DayTick ==
    /\ (now - StartTime) \div DayMs < MaxDayTicks
    /\ now' = now + twentyFourHoursMs
    /\ result' = NoResult
    /\ UNCHANGED <<timeEntries, entryCounter, auditLog>>

MsTick ==
    /\ (now - StartTime) % DayMs < MaxMsTicks
    /\ now' = now + 1
    /\ result' = NoResult
    /\ UNCHANGED <<timeEntries, entryCounter, auditLog>>

----------------------------------------------------------------------------
(* Invoice service *)

\* The year of the clock when the process starts
FirstYear == 2026

\* String(n) for a natural number n: its decimal digits
RECURSIVE DecimalDigits(_)
DecimalDigits(n) ==
    IF n < 10 THEN <<n>> ELSE Append(DecimalDigits(n \div 10), n % 10)

\* s.padStart(targetLength, '0') for a string of digits
RECURSIVE padStart(_, _)
padStart(s, targetLength) ==
    IF Len(s) >= targetLength THEN s ELSE padStart(<<0>> \o s, targetLength)

\* `${prefix}-${year}-${String(counter).padStart(6, '0')}`: the three parts that
\* the dashes join
InvoiceNumber(prefix, y, counter) ==
    <<prefix, y, padStart(DecimalDigits(counter), 6)>>

\* The do-while loop of generateInvoiceNumber: the counter after the loop has run
\* from the given counter
RECURSIVE NextInvoiceCounter(_, _, _, _)
NextInvoiceCounter(counter, prefix, y, existingNumbers) ==
    IF InvoiceNumber(prefix, y, counter + 1) \in existingNumbers
    THEN NextInvoiceCounter(counter + 1, prefix, y, existingNumbers)
    ELSE counter + 1

\* A generator that stops at the first candidate, whether or not it is taken
generateInvoiceNumberOnce(prefix, existingNumbers) ==
    [counter |-> invoiceCounter + 1,
     number |-> InvoiceNumber(prefix, year, invoiceCounter + 1)]

\* generateInvoiceNumber: the counter it leaves and the number it returns
generateInvoiceNumber(prefix, existingNumbers) ==
    [counter |-> NextInvoiceCounter(invoiceCounter, prefix, year, existingNumbers),
     number |-> InvoiceNumber(prefix, year,
                    NextInvoiceCounter(invoiceCounter, prefix, year, existingNumbers))]

\* A selection that leaves out the entries of the end date itself
getEntriesBeforeEndDate(entries, clientId, startDate, endDate) ==
    LET keep(entry) ==
            /\ entry.clientId = clientId
            /\ Truthy(entry.billable)
            /\ entry.activityDate[2] >= startDate[2]
            /\ entry.activityDate[2] < endDate[2]
    IN  SelectSeq(entries, keep)

getBillableEntriesForInvoice(entries, clientId, startDate, endDate) ==
    LET keep(entry) ==
            /\ entry.clientId = clientId
            /\ Truthy(entry.billable)
            /\ entry.activityDate[2] >= startDate[2]
            /\ entry.activityDate[2] <= endDate[2]
    IN  SelectSeq(entries, keep)

\* `Service on ${entry.activityDate.toISOString().split('T')[0]}`: the text and the
\* calendar day
ServiceOn(date) == <<"string", "Service on ", DayOf(date[2])>>

\* The k-th value that the id generator of a call returns
GeneratedId(k) == <<"id", k>>

\* Line items that name the stored entry for their quantity and rate instead of
\* holding the numbers
createLineItemsLinked(entries, invoiceId, used) ==
    [i \in 1..Len(entries) |->
        [id |-> GeneratedId(used + i),
         invoiceId |-> invoiceId,
         timeEntryId |-> entries[i].id,
         description |-> IF Falsy(entries[i].memo)
                         THEN ServiceOn(entries[i].activityDate)
                         ELSE entries[i].memo,
         quantity |-> <<"ref", entries[i].id, "duration">>,
         rate |-> <<"ref", entries[i].id, "rate">>,
         amount |-> entries[i].amount,
         type |-> "time_entry"]]

\* createLineItemsFromEntries, for a generator that has returned `used` ids
createLineItemsFromEntries(entries, invoiceId, used) ==
    [i \in 1..Len(entries) |->
        [id |-> GeneratedId(used + i),
         invoiceId |-> invoiceId,
         timeEntryId |-> entries[i].id,
         description |-> IF Falsy(entries[i].memo)
                         THEN ServiceOn(entries[i].activityDate)
                         ELSE entries[i].memo,
         quantity |-> entries[i].duration,
         rate |-> entries[i].rate,
         amount |-> entries[i].amount,
         type |-> "time_entry"]]

Null == <<"null">>

\* createLineItemsFromCharges, for a generator that has returned `used` ids
createLineItemsFromCharges(charges, invoiceId, used) ==
    [i \in 1..Len(charges) |->
        [id |-> GeneratedId(used + i),
         invoiceId |-> invoiceId,
         timeEntryId |-> Null,
         description |-> charges[i].description,
         quantity |-> Num(1),
         rate |-> charges[i].amount,
         amount |-> charges[i].amount,
         type |-> "additional_charge"]]

\* lineItems.reduce((sum, item) => sum + item.amount, 0)
RECURSIVE SumAmounts(_)
SumAmounts(lineItems) ==
    IF lineItems = <<>> THEN Num(0)
    ELSE LET sum == SumAmounts(SubSeq(lineItems, 1, Len(lineItems) - 1))
             amount == lineItems[Len(lineItems)].amount
         IN  IF IsNum(sum) /\ IsNum(amount) THEN Num(sum[2] + amount[2]) ELSE NaN

\* Totals of the time entry items alone
calculateTotalsOfTimeEntries(lineItems) ==
    [subtotal |-> SumAmounts(SelectSeq(lineItems, LAMBDA item : item.type = "time_entry")),
     total |-> SumAmounts(SelectSeq(lineItems, LAMBDA item : item.type = "time_entry"))]

calculateInvoiceTotals(lineItems) ==
    [subtotal |-> SumAmounts(lineItems), total |-> SumAmounts(lineItems)]

NoInvoice == <<>>

\* generateInvoiceNumber called on its own
GenerateNumber(prefix, existingNumbers) ==
    /\ Len(issued) < MaxInvoices
    /\ invoiceCounter' = generateInvoiceNumber(prefix, existingNumbers).counter
    /\ issued' = Append(issued,
                    [number |-> generateInvoiceNumber(prefix, existingNumbers).number,
                     existing |-> existingNumbers])
    /\ UNCHANGED <<year, invoice>>

generateInvoice(input, entries, existingInvoiceNumbers) ==
    LET invoiceId == GeneratedId(1)
        generated == generateInvoiceNumber("INV", existingInvoiceNumbers)
        billableEntries ==
            getBillableEntriesForInvoice(entries, input.clientId,
                                         input.startDate, input.endDate)
        entryLineItems == createLineItemsFromEntries(billableEntries, invoiceId, 1)
        chargeLineItems ==
            \* an array is truthy, an absent key is not
            IF "additionalCharges" \in DOMAIN input
            THEN createLineItemsFromCharges(input.additionalCharges, invoiceId,
                                            1 + Len(billableEntries))
            ELSE <<>>
        allLineItems == entryLineItems \o chargeLineItems
        totals == calculateInvoiceTotals(allLineItems)
    IN  /\ Len(issued) < MaxInvoices
        /\ invoiceCounter' = generated.counter
        /\ issued' = Append(issued, [number |-> generated.number,
                                     existing |-> existingInvoiceNumbers])
        /\ invoice' =
                [id |-> invoiceId,
                 invoiceNumber |-> generated.number,
                 clientId |-> input.clientId,
                 startDate |-> input.startDate,
                 endDate |-> input.endDate,
                 subtotal |-> totals.subtotal,
                 total |-> totals.total,
                 status |-> "draft",
                 generatedAt |-> DateAt(now),
                 lineItems |-> allLineItems,
                 createdAt |-> DateAt(now),
                 updatedAt |-> DateAt(now)]
        /\ UNCHANGED year

\* The clock passes into the next year
NewYear ==
    /\ year - FirstYear < MaxYearTicks
    /\ year' = year + 1
    /\ UNCHANGED <<invoiceCounter, issued, invoice>>

----------------------------------------------------------------------------
(* The seed data of the store *)

MaxCallers == 3
MaxReturns == 3

\* The requests whose handlers call initialize()
Callers == 1..MaxCallers

SeedUsers == <<"user-admin", "user-john", "user-jane">>
SeedClients == <<"client-acme", "client-techstart">>
SeedServices == <<"service-consulting", "service-development", "service-training">>
SeedRates == <<"rate-1", "rate-2", "rate-3">>
SeedAllocations == <<"user-john", "user-jane">>

\* The store of a process that has just started: nothing seeded, no caller inside
\* initialize(), no call of it returned
Unseeded ==
    [initialized |-> FALSE, users |-> <<>>, clients |-> <<>>, services |-> <<>>,
     rates |-> <<>>, allocations |-> <<>>,
     pc |-> [r \in Callers |-> "out"], returned |-> 0]

\* The store after one call of initialize() has run alone
Seeded ==
    [initialized |-> TRUE, users |-> SeedUsers, clients |-> SeedClients,
     services |-> SeedServices, rates |-> SeedRates, allocations |-> SeedAllocations,
     pc |-> [r \in Callers |-> "out"], returned |-> 1]

\* initialize() up to its first await: it returns at once when initialized is
\* set, and otherwise starts hashing the password of the administrator
initializeCalled(r) ==
    /\ seed.pc[r] = "out"
    /\ seed.returned < MaxReturns
    /\ seed' = IF seed.initialized
               THEN [seed EXCEPT !.returned = @ + 1]
               ELSE [seed EXCEPT !.pc[r] = "hashing admin123"]

\* From the first await to the second: the administrator is pushed and the
\* password of the employees is being hashed
adminHashed(r) ==
    /\ seed.pc[r] = "hashing admin123"
    /\ seed' = [seed EXCEPT !.users = Append(@, "user-admin"),
                            !.pc[r] = "hashing employee123"]

\* From the second await to the end: the employees, the clients, the services,
\* the rates and the allocations are pushed and initialized is set
employeeHashed(r) ==
    /\ seed.pc[r] = "hashing employee123"
    /\ seed' = [seed EXCEPT !.users = @ \o <<"user-john", "user-jane">>,
                            !.clients = @ \o SeedClients,
                            !.services = @ \o SeedServices,
                            !.rates = @ \o SeedRates,
                            !.allocations = @ \o SeedAllocations,
                            !.initialized = TRUE,
                            !.pc[r] = "out",
                            !.returned = @ + 1]

----------------------------------------------------------------------------
(* The frontend's auth store *)

\* A user object, by its id
User(id) == <<"user", id>>

\* The store as created, with nothing in localStorage and no request in flight;
\* loggedOut records that logout() has run and no login() called since has
\* succeeded
AuthStart ==
    [user |-> Null, token |-> Null, isAuthenticated |-> FALSE, isLoading |-> FALSE,
     error |-> Null, localStorage |-> Null, requests |-> <<>>, loggedOut |-> FALSE]

----------------------------------------------------------------------------
(* Specification of the time entry core *)

Init ==
    /\ timeEntries = <<>>
    /\ entryCounter = 0
    /\ now = StartTime
    /\ result = NoResult
    /\ call = NoCall
    /\ auditLog = <<>>
    /\ invoiceCounter = 0
    /\ year = FirstYear
    /\ issued = <<>>
    /\ invoice = NoInvoice
    /\ probe = NoProbe
    /\ seed = Seeded
    /\ assigned = {}
    /\ auth = AuthStart

\* The store and the invoice service as they are when the process starts, for
\* the calls of pure functions that touch neither
Idle ==
    /\ timeEntries = <<>>
    /\ entryCounter = 0
    /\ now = StartTime
    /\ result = NoResult
    /\ call = NoCall
    /\ auditLog = <<>>
    /\ invoiceCounter = 0
    /\ year = FirstYear
    /\ issued = <<>>
    /\ invoice = NoInvoice
    /\ seed = Unseeded
    /\ assigned = {}
    /\ auth = AuthStart

Create ==
    /\ entryCounter < MaxEntries
    /\ \E u \in Employees, input \in CreateInputs :
            createTimeEntry(u, input) /\ call' = Call(u, Undefined, input)

Update ==
    \E u \in Users, id \in EntryIds, input \in UpdateInputs :
        updateTimeEntry(u, id, input) /\ call' = Call(u, id, input)

Delete ==
    \E u \in Users, id \in EntryIds :
        deleteTimeEntry(u, id) /\ call' = Call(u, id, <<>>)

Status ==
    \E u \in Users, id \in EntryIds, s \in StatusInputs :
        patchStatus(u, id, s) /\ call' = Call(u, id, [status |-> s])

Tick == (DayTick \/ MsTick) /\ call' = NoCall

Next ==
    \/ Create /\ UNCHANGED <<invoiceVars, probe, otherVars>>
    \/ Update /\ UNCHANGED <<invoiceVars, probe, otherVars>>
    \/ Delete /\ UNCHANGED <<invoiceVars, probe, otherVars>>
    \/ Status /\ UNCHANGED <<invoiceVars, probe, otherVars>>
    \/ Tick /\ UNCHANGED <<invoiceVars, probe, otherVars>>

Spec == Init /\ [][Next]_vars

----------------------------------------------------------------------------
(* Specification of the invoice number generator *)

Prefixes == {"INV", "BILL"}

\* The sets of existing numbers that a caller passes: none, the first number of the
\* year, the second and third, the numbers returned so far in this process
ExistingNumberSets ==
    {{},
     {InvoiceNumber("INV", year, 1)},
     {InvoiceNumber("INV", year, 2), InvoiceNumber("INV", year, 3)},
     {issued[i].number : i \in 1..Len(issued)}}

\* A stored entry as the invoice service reads it
BillableEntry(n, clientId, day, memo, amount) ==
    [id |-> EntryId(n), employeeId |-> "user-john", clientId |-> Str(clientId),
     serviceId |-> Str("service-consulting"), activityDate |-> DateAt(day * DayMs),
     memo |-> memo, rate |-> Num(10000), duration |-> Num(amount \div 100),
     billable |-> Bool(TRUE), amount |-> Num(amount), status |-> "approved",
     createdAt |-> StartTime]

\* The second list holds an entry on each bound of the date ranges asked for, one
\* of another client, one that is not billable, one after the range, and an entry
\* whose stored amount is not its rate times its duration
InvoiceEntryLists ==
    {<<>>,
     <<[BillableEntry(1, "client-acme", 10, Str("workshop"), 40000)
            EXCEPT !.duration = Num(300)],
       BillableEntry(2, "client-techstart", 12, Undefined, 30000),
       [BillableEntry(4, "client-acme", 15, Undefined, 20000)
            EXCEPT !.billable = Bool(FALSE), !.amount = Num(0)],
       BillableEntry(3, "client-acme", 19, Str(""), 60000),
       BillableEntry(5, "client-acme", 20, Str("review"), 10000)>>}

InvoiceInputs ==
    {[clientId |-> Str("client-acme"),
      startDate |-> DateAt(10 * DayMs), endDate |-> DateAt(19 * DayMs)],
     [clientId |-> Str("client-acme"),
      startDate |-> DateAt(11 * DayMs), endDate |-> DateAt(19 * DayMs),
      additionalCharges |-> <<[description |-> Str("Travel"), amount |-> Num(5000)],
                              [description |-> Str("Materials"), amount |-> Num(1250)]>>]}

NumberOnly ==
    \E prefix \in Prefixes, existing \in ExistingNumberSets :
        GenerateNumber(prefix, existing) /\ call' = NoCall

WholeInvoice ==
    \E input \in InvoiceInputs, entries \in InvoiceEntryLists,
       existing \in ExistingNumberSets :
        generateInvoice(input, entries, existing) /\ call' = InvoiceCall(input, entries)

storeVars == <<timeEntries, entryCounter, now, result, auditLog>>

NextInvoice ==
    \/ NumberOnly /\ UNCHANGED <<storeVars, probe, otherVars>>
    \/ WholeInvoice /\ UNCHANGED <<storeVars, probe, otherVars>>
    \/ NewYear /\ call' = NoCall /\ UNCHANGED <<storeVars, probe, otherVars>>

SpecInvoice == Init /\ [][NextInvoice]_vars

----------------------------------------------------------------------------
(* Specification of an invoice generated from the stored entries, which then
   go on changing *)

SnapshotInputs ==
    {[clientId |-> Str("client-acme"),
      startDate |-> DateAt(StartTime - DayMs), endDate |-> DateAt(StartTime)],
     [clientId |-> Str("client-acme"),
      startDate |-> DateAt(StartTime - DayMs), endDate |-> DateAt(StartTime),
      additionalCharges |-> <<[description |-> Str("Travel"), amount |-> Num(5000)]>>]}

\* An administrator has an invoice generated from the entries in the store
InvoiceFromStore ==
    /\ Len(issued) < MaxSnapshots
    /\ \E input \in SnapshotInputs :
            generateInvoice(input, timeEntries, {})
            /\ call' = InvoiceCall(input, timeEntries)
    /\ result' = NoResult
    /\ UNCHANGED <<timeEntries, entryCounter, now, auditLog, probe, otherVars>>

NextSnapshot ==
    \/ Create /\ UNCHANGED <<invoiceVars, probe, otherVars>>
    \/ Update /\ UNCHANGED <<invoiceVars, probe, otherVars>>
    \/ Delete /\ UNCHANGED <<invoiceVars, probe, otherVars>>
    \/ Status /\ UNCHANGED <<invoiceVars, probe, otherVars>>
    \/ Tick /\ UNCHANGED <<invoiceVars, probe, otherVars>>
    \/ InvoiceFromStore

SpecSnapshot == Init /\ [][NextSnapshot]_vars

----------------------------------------------------------------------------
(* Specification of the listing of the stored entries *)

MaxListedEntries == 2

\* The filters that the route builds from a query: every key, undefined where
\* the query has none; the dates of the queries here parse to valid dates
ListFilters ==
    [employeeId : {Undefined, Str("user-john"), Str("user-jane")},
     clientId : {Undefined, Str("client-acme")},
     startDate : {Undefined, DateAt(StartTime)},
     endDate : {Undefined},
     billable : {Undefined, Bool(FALSE)}]

CreateListed ==
    /\ entryCounter < MaxListedEntries
    /\ \E u \in Employees, input \in {InA, InB} :
            createTimeEntry(u, input) /\ call' = Call(u, Undefined, input)

List ==
    \E u \in Users, filters \in ListFilters :
        getTimeEntries(u, filters) /\ call' = Call(u, Undefined, filters)

NextList ==
    \/ CreateListed /\ UNCHANGED <<invoiceVars, probe, otherVars>>
    \/ List /\ UNCHANGED <<invoiceVars, probe, otherVars>>

SpecList == Init /\ [][NextList]_vars

----------------------------------------------------------------------------
(* Specification of the store with several entries over its life *)

ListedIds == {EntryId(n) : n \in 1..MaxListedEntries}

\* The updates of UpdateInputs and one of the client and the memo
ListedUpdateInputs ==
    UpdateInputs \cup {[clientId |-> Str("client-techstart"), memo |-> Str("fixed")]}

\* A create, with the id it gave out added to those given out so far
CreateAssigned ==
    /\ CreateListed
    /\ assigned' = IF result'.code = OK
                   THEN assigned \cup {timeEntries'[Len(timeEntries')].id}
                   ELSE assigned

UpdateListed ==
    \E u \in Users, id \in ListedIds, input \in ListedUpdateInputs :
        updateTimeEntry(u, id, input) /\ call' = Call(u, id, input)

DeleteListed ==
    \E u \in Users, id \in ListedIds :
        deleteTimeEntry(u, id) /\ call' = Call(u, id, <<>>)

NextLife ==
    \/ CreateAssigned /\ UNCHANGED <<invoiceVars, probe, seed, auth>>
    \/ UpdateListed /\ UNCHANGED <<invoiceVars, probe, otherVars>>
    \/ DeleteListed /\ UNCHANGED <<invoiceVars, probe, otherVars>>

SpecLife == Init /\ [][NextLife]_vars

----------------------------------------------------------------------------
(* Specification of the seeding of the store by concurrent requests *)

\* The process has just started: nothing is seeded yet
InitSeed ==
    /\ Idle
    /\ probe = NoProbe

seedFrame ==
    UNCHANGED <<timeEntries, entryCounter, now, result, call, auditLog,
                invoiceVars, probe, assigned, auth>>

\* A request handler calls initialize()
CallInitialize == \E r \in Callers : initializeCalled(r) /\ seedFrame

\* bcrypt.hash('admin123', 4) resolves for a caller waiting for it
AdminHashed == \E r \in Callers : adminHashed(r) /\ seedFrame

\* bcrypt.hash('employee123', 4) resolves for a caller waiting for it
EmployeeHashed == \E r \in Callers : employeeHashed(r) /\ seedFrame

NextSeed ==
    \/ CallInitialize
    \/ AdminHashed
    \/ EmployeeHashed

SpecSeed == InitSeed /\ [][NextSeed]_vars

----------------------------------------------------------------------------
(* Specification of the frontend's auth store *)

MaxRequests == 2

\* The token that the server issues for a user
Token(id) == <<"token", id>>

\* What a login form submits: the credentials of a user, or a wrong password
Credentials == {"user-john", "user-jane", "wrong password"}

\* set(partial) of the store
SetAuth(partial) ==
    [f \in DOMAIN auth |-> IF f \in DOMAIN partial THEN partial[f] ELSE auth[f]]

Without(requests, i) ==
    SubSeq(requests, 1, i - 1) \o SubSeq(requests, i + 1, Len(requests))

\* login() up to its await: POST /auth/login is sent
loginCalled(credentials) ==
    /\ Len(auth.requests) < MaxRequests
    /\ auth' = SetAuth([isLoading |-> TRUE, error |-> Null,
                        requests |-> Append(auth.requests,
                                            [kind |-> "login", of |-> credentials,
                                             beforeLogout |-> FALSE])])

\* The response to a login arrives with a token and a user: login() resumes in
\* its try block
loginSucceeded(i) ==
    /\ auth.requests[i].kind = "login"
    /\ auth.requests[i].of # "wrong password"
    /\ auth' = SetAuth([localStorage |-> Token(auth.requests[i].of),
                        user |-> User(auth.requests[i].of),
                        token |-> Token(auth.requests[i].of),
                        isAuthenticated |-> TRUE, isLoading |-> FALSE,
                        error |-> Null,
                        requests |-> Without(auth.requests, i),
                        loggedOut |-> auth.loggedOut /\ auth.requests[i].beforeLogout])

\* The login is refused, or the request fails: login() resumes in its catch block
loginFailed(i) ==
    /\ auth.requests[i].kind = "login"
    /\ auth' = SetAuth([user |-> Null, token |-> Null, isAuthenticated |-> FALSE,
                        isLoading |-> FALSE, error |-> Str("Login failed"),
                        requests |-> Without(auth.requests, i)])

\* logout(): synchronous; the requests in flight are now from before a logout
logout ==
    auth' = SetAuth([localStorage |-> Null, user |-> Null, token |-> Null,
                     isAuthenticated |-> FALSE, error |-> Null,
                     requests |-> [i \in 1..Len(auth.requests) |->
                                      [auth.requests[i] EXCEPT !.beforeLogout = TRUE]],
                     loggedOut |-> TRUE])

\* checkAuth() up to its await: without a token it ends at once, with one GET
\* /auth/me is sent, with the token of localStorage as its bearer
checkAuthCalled ==
    LET token == IF auth.token # Null THEN auth.token ELSE auth.localStorage
    IN  IF token = Null
        THEN auth' = SetAuth([isAuthenticated |-> FALSE, user |-> Null])
        ELSE /\ Len(auth.requests) < MaxRequests
             /\ auth' = SetAuth([isLoading |-> TRUE,
                                 requests |-> Append(auth.requests,
                                                     [kind |-> "me",
                                                      of |-> auth.localStorage,
                                                      beforeLogout |-> FALSE])])

\* The profile of the bearer arrives: checkAuth() resumes in its try block
checkAuthSucceeded(i) ==
    /\ auth.requests[i].kind = "me"
    /\ auth.requests[i].of # Null
    /\ auth' = SetAuth([user |-> User(auth.requests[i].of[2]),
                        isAuthenticated |-> TRUE, isLoading |-> FALSE,
                        requests |-> Without(auth.requests, i)])

\* The request had no bearer, its token has expired, or it fails: checkAuth()
\* resumes in its catch block
checkAuthFailed(i) ==
    /\ auth.requests[i].kind = "me"
    /\ auth' = SetAuth([localStorage |-> Null, user |-> Null, token |-> Null,
                        isAuthenticated |-> FALSE, isLoading |-> FALSE,
                        requests |-> Without(auth.requests, i)])

InitAuth ==
    /\ Idle
    /\ probe = NoProbe

authFrame ==
    UNCHANGED <<timeEntries, entryCounter, now, result, call, auditLog,
                invoiceVars, probe, seed, assigned>>

LoginCalled == \E c \in Credentials : loginCalled(c) /\ authFrame
LoginSucceeded == \E i \in 1..Len(auth.requests) : loginSucceeded(i) /\ authFrame
LoginFailed == \E i \in 1..Len(auth.requests) : loginFailed(i) /\ authFrame
Logout == logout /\ authFrame
CheckAuthCalled == checkAuthCalled /\ authFrame
CheckAuthSucceeded == \E i \in 1..Len(auth.requests) : checkAuthSucceeded(i) /\ authFrame
CheckAuthFailed == \E i \in 1..Len(auth.requests) : checkAuthFailed(i) /\ authFrame

NextAuth ==
    \/ LoginCalled
    \/ LoginSucceeded
    \/ LoginFailed
    \/ Logout
    \/ CheckAuthCalled
    \/ CheckAuthSucceeded
    \/ CheckAuthFailed

SpecAuth == InitAuth /\ [][NextAuth]_vars

----------------------------------------------------------------------------
(* Role middleware, on a request that may carry no user *)

\* A call of next: without an argument, or with an ApiError of a code and an
\* HTTP status
NextPlain == <<"next">>
NextError(code, statusCode) == <<"next", code, statusCode>>

\* adminMiddleware: the calls of next that it makes, in order
adminMiddlewareCalls(req) ==
    IF "user" \notin DOMAIN req
    THEN <<NextError(AUTHENTICATION_REQUIRED, 401)>>
    ELSE IF req.user.role # "administrator"
    THEN <<NextError(AUTHORIZATION_DENIED, 403)>>
    ELSE <<NextPlain>>

\* A role check that every authenticated user passes
roleMiddlewareOfAnyRole(allowedRoles, req) ==
    IF "user" \notin DOMAIN req
    THEN <<NextError(AUTHENTICATION_REQUIRED, 401)>>
    ELSE <<NextPlain>>

\* roleMiddleware(...allowedRoles): the calls of next that the middleware it
\* returns makes, in order
roleMiddleware(allowedRoles, req) ==
    IF "user" \notin DOMAIN req
    THEN <<NextError(AUTHENTICATION_REQUIRED, 401)>>
    ELSE IF req.user.role \notin allowedRoles
    THEN <<NextError(AUTHORIZATION_DENIED, 403)>>
    ELSE <<NextPlain>>

requireRole(allowedRoles, req) == roleMiddleware(allowedRoles, req)

Roles == {"employee", "administrator"}

\* A request without a user, and the requests that authMiddleware has attached
\* the payload of a token to
Requests ==
    {[path |-> "/"]}
    \cup {[path |-> "/", user |-> [userId |-> u, role |-> r]] :
            u \in Users, r \in Roles}

InitRoles ==
    /\ Idle
    /\ probe \in
            {Probe("adminMiddleware", [allowedRoles |-> {"administrator"}, req |-> q]) :
                q \in Requests}
            \cup {Probe(fn, [allowedRoles |-> a, req |-> q]) :
                    fn \in {"roleMiddleware", "requireRole"},
                    a \in SUBSET Roles, q \in Requests}

RunAdminMiddleware ==
    Return("adminMiddleware", adminMiddlewareCalls(probe.args.req))

RunRoleMiddleware ==
    Return("roleMiddleware", roleMiddleware(probe.args.allowedRoles, probe.args.req))

RunRequireRole ==
    Return("requireRole", requireRole(probe.args.allowedRoles, probe.args.req))

NextRoles ==
    \/ RunAdminMiddleware
    \/ RunRoleMiddleware
    \/ RunRequireRole

SpecRoles == InitRoles /\ [][NextRoles]_vars

----------------------------------------------------------------------------
(* Commission *)

\* a < b and a > b for JavaScript numbers: false when one of them is NaN
Less(a, b) == IsNum(a) /\ IsNum(b) /\ a[2] < b[2]
Greater(a, b) == Less(b, a)

\* A percentage, in hundredths of a percent
Percent(n) == Num(100 * n)

\* A commission without the upper bound of the percentage
calculateCommissionUncapped(billableAmount, allocationPercentage) ==
    IF Less(billableAmount, Num(0)) \/ Less(allocationPercentage, Percent(0))
    THEN Num(0)
    ELSE IF ~IsNum(billableAmount) \/ ~IsNum(allocationPercentage) THEN NaN
    ELSE Num(billableAmount[2] * allocationPercentage[2])

\* The amount is in cents and the percentage in hundredths of a percent, so
\* (billableAmount * allocationPercentage) / 100 is their product in millionths
\* of the currency unit; the code does not round it
calculateCommission(billableAmount, allocationPercentage) ==
    IF \/ Less(billableAmount, Num(0))
       \/ Less(allocationPercentage, Percent(0))
       \/ Greater(allocationPercentage, Percent(100))
    THEN Num(0)
    ELSE IF ~IsNum(billableAmount) \/ ~IsNum(allocationPercentage) THEN NaN
    ELSE Num(billableAmount[2] * allocationPercentage[2])

MaxSmallAmount == 10

\* Amounts from -0.02 to 0.10, 262.50 and 1000.00, and NaN
CommissionAmounts ==
    {Num(n) : n \in (-2)..MaxSmallAmount} \cup {Num(26250), Num(100000), NaN}

\* Percentages around 0 and 100, 15, 15.5 and 20, and NaN
CommissionPercentages ==
    {Num(-1), Percent(0), Num(1), Percent(15), Num(1550), Percent(20),
     Num(9999), Percent(100), Num(10001), NaN}

InitCommission ==
    /\ Idle
    /\ probe \in {Probe("calculateCommission",
                         [billableAmount |-> a, allocationPercentage |-> pct]) :
                    a \in CommissionAmounts, pct \in CommissionPercentages}

Commission ==
    Return("calculateCommission",
           calculateCommission(probe.args.billableAmount,
                               probe.args.allocationPercentage))

NextCommission == Commission

SpecCommission == InitCommission /\ [][NextCommission]_vars

----------------------------------------------------------------------------
(* Rate resolution *)

\* rates.find(r => r.serviceId === serviceId && r.employeeId === employeeId): the
\* first such rate in a sequence of length one, or the empty sequence
findRate(rates, serviceId, employeeId) ==
    LET hits == SelectSeq(rates, LAMBDA r : r.serviceId = serviceId
                                            /\ r.employeeId = employeeId)
    IN  IF hits = <<>> THEN <<>> ELSE <<Head(hits)>>

\* A resolution that looks for the default rate of the service first
getDefaultRateFirst(rates, serviceId, employeeId) ==
    IF findRate(rates, serviceId, Null) # <<>>
    THEN findRate(rates, serviceId, Null)[1].hourlyRate
    ELSE IF Truthy(employeeId) /\ findRate(rates, serviceId, employeeId) # <<>>
    THEN findRate(rates, serviceId, employeeId)[1].hourlyRate
    ELSE Null

getEffectiveRate(rates, serviceId, employeeId) ==
    IF Truthy(employeeId) /\ findRate(rates, serviceId, employeeId) # <<>>
    THEN findRate(rates, serviceId, employeeId)[1].hourlyRate
    ELSE IF findRate(rates, serviceId, Null) # <<>>
    THEN findRate(rates, serviceId, Null)[1].hourlyRate
    ELSE Null

MaxRates == 3

RateId(n) == <<"rate", n>>

\* The rates a table may hold, less their ids: of two services, as default or for
\* one of two employees, at 0.00 or 150.00 or 175.00 an hour
RateRows ==
    [serviceId : {Str("service-consulting"), Str("service-training")},
     employeeId : {Null, Str("user-john"), Str("user-jane")},
     hourlyRate : {Num(0), Num(15000), Num(17500)}]

\* The tables of at most MaxRates rates, in the order in which they were pushed
RateTables ==
    {[i \in 1..n |-> [id |-> RateId(i), serviceId |-> rows[i].serviceId,
                      employeeId |-> rows[i].employeeId,
                      hourlyRate |-> rows[i].hourlyRate]] :
        <<n, rows>> \in UNION {{<<m, r>> : r \in [1..m -> RateRows]} : m \in 0..MaxRates}}

RateQueries ==
    [serviceId : {Str("service-consulting"), Str("service-training")},
     employeeId : {Undefined, Str(""), Str("user-john"), Str("user-jane")}]

InitRates ==
    /\ Idle
    /\ probe \in {Probe("getEffectiveRate", [rates |-> t, serviceId |-> q.serviceId,
                                             employeeId |-> q.employeeId]) :
                        t \in RateTables, q \in RateQueries}

ResolveRate ==
    Return("getEffectiveRate",
           getEffectiveRate(probe.args.rates, probe.args.serviceId,
                            probe.args.employeeId))

NextRates == ResolveRate

SpecRates == InitRates /\ [][NextRates]_vars

\* MockDatabase.getEffectiveRate, of the rates that the store holds
dbGetEffectiveRate(rates, serviceId, employeeId) ==
    IF Truthy(employeeId) /\ findRate(rates, serviceId, employeeId) # <<>>
    THEN findRate(rates, serviceId, employeeId)[1].hourlyRate
    ELSE IF findRate(rates, serviceId, Null) # <<>>
    THEN findRate(rates, serviceId, Null)[1].hourlyRate
    ELSE Num(10000)

InitStoreRates ==
    /\ Idle
    /\ probe \in {Probe("MockDatabase.getEffectiveRate",
                        [rates |-> t, serviceId |-> q.serviceId,
                         employeeId |-> q.employeeId]) :
                        t \in RateTables, q \in RateQueries}

ResolveStoreRate ==
    Return("MockDatabase.getEffectiveRate",
           dbGetEffectiveRate(probe.args.rates, probe.args.serviceId,
                              probe.args.employeeId))

NextStoreRates == ResolveStoreRate

SpecStoreRates == InitStoreRates /\ [][NextStoreRates]_vars

----------------------------------------------------------------------------
(* Filtering *)

\* A filter that applies the billable filter only when it asks for billable
\* entries
filterEntriesWhenBillable(entries, employeeId, filters) ==
    LET keep(entry) ==
            /\ ~(entry.employeeId # employeeId)
            /\ ~(Truthy(Get(filters, "clientId"))
                 /\ entry.clientId # Get(filters, "clientId"))
            /\ ~(Truthy(Get(filters, "startDate"))
                 /\ entry.activityDate[2] < Get(filters, "startDate")[2])
            /\ ~(Truthy(Get(filters, "endDate"))
                 /\ entry.activityDate[2] > Get(filters, "endDate")[2])
            /\ ~(Truthy(Get(filters, "billable"))
                 /\ entry.billable # Get(filters, "billable"))
    IN  SelectSeq(entries, keep)

filterEntriesForEmployee(entries, employeeId, filters) ==
    LET keep(entry) ==
            /\ ~(entry.employeeId # employeeId)
            /\ ~(Truthy(Get(filters, "clientId"))
                 /\ entry.clientId # Get(filters, "clientId"))
            /\ ~(Truthy(Get(filters, "startDate"))
                 /\ entry.activityDate[2] < Get(filters, "startDate")[2])
            /\ ~(Truthy(Get(filters, "endDate"))
                 /\ entry.activityDate[2] > Get(filters, "endDate")[2])
            /\ ~(Get(filters, "billable") # Undefined
                 /\ entry.billable # Get(filters, "billable"))
    IN  SelectSeq(entries, keep)

\* A filter that keeps an entry when it passes any of the filters given
filterEntriesForAny(entries, filters) ==
    LET keep(entry) ==
            \/ DOMAIN filters = {}
            \/ Truthy(Get(filters, "employeeId"))
                    /\ Str(entry.employeeId) = Get(filters, "employeeId")
            \/ Truthy(Get(filters, "clientId"))
                    /\ entry.clientId = Get(filters, "clientId")
            \/ Truthy(Get(filters, "startDate"))
                    /\ entry.activityDate[2] >= Get(filters, "startDate")[2]
            \/ Truthy(Get(filters, "endDate"))
                    /\ entry.activityDate[2] <= Get(filters, "endDate")[2]
            \/ Get(filters, "billable") # Undefined
                    /\ entry.billable = Get(filters, "billable")
    IN  SelectSeq(entries, keep)

\* (the employeeId of a filter is a string value, that of an entry its text)
filterEntriesForAdmin(entries, filters) ==
    LET keep(entry) ==
            /\ ~(Truthy(Get(filters, "employeeId"))
                 /\ Str(entry.employeeId) # Get(filters, "employeeId"))
            /\ ~(Truthy(Get(filters, "clientId"))
                 /\ entry.clientId # Get(filters, "clientId"))
            /\ ~(Truthy(Get(filters, "startDate"))
                 /\ entry.activityDate[2] < Get(filters, "startDate")[2])
            /\ ~(Truthy(Get(filters, "endDate"))
                 /\ entry.activityDate[2] > Get(filters, "endDate")[2])
            /\ ~(Get(filters, "billable") # Undefined
                 /\ entry.billable # Get(filters, "billable"))
    IN  SelectSeq(entries, keep)

MaxFilterEntries == 2

\* The entries to filter, less their ids: of two employees and two clients, dated
\* the day before, the day of and the day after the bound that the filters use
FilterRows ==
    [employeeId : {"user-john", "user-jane"},
     clientId : {Str("client-acme"), Str("client-techstart")},
     activityDate : {DateAt(10 * DayMs), DateAt(11 * DayMs), DateAt(12 * DayMs)},
     billable : {Bool(TRUE), Bool(FALSE)}]

FilterEntryLists ==
    {[i \in 1..n |-> [id |-> EntryId(i), employeeId |-> rows[i].employeeId,
                      clientId |-> rows[i].clientId,
                      activityDate |-> rows[i].activityDate,
                      billable |-> rows[i].billable]] :
        <<n, rows>> \in UNION {{<<m, r>> : r \in [1..m -> FilterRows]} :
                                    m \in 0..MaxFilterEntries}}

\* The records that hold each key of a set of keys with one of its values
RECURSIVE RecordsOver(_, _)
RecordsOver(keys, values) ==
    IF keys = {} THEN {<<>>}
    ELSE LET k == CHOOSE x \in keys : TRUE
         IN  UNION {{r, [f \in DOMAIN r \cup {k} |-> IF f = k THEN v ELSE r[f]]} :
                        <<r, v>> \in RecordsOver(keys \ {k}, values) \X values[k]}

FilterValues ==
    [clientId |-> {Str("client-acme")},
     startDate |-> {DateAt(11 * DayMs)},
     endDate |-> {DateAt(11 * DayMs)},
     billable |-> {Bool(TRUE), Bool(FALSE)},
     employeeId |-> {Str("user-john")}]

\* Every combination of filters given and filters left out
EmployeeFilters == RecordsOver({"clientId", "startDate", "endDate", "billable"}, FilterValues)
AdminFilters ==
    RecordsOver({"employeeId", "clientId", "startDate", "endDate", "billable"}, FilterValues)

InitFilters ==
    /\ Idle
    /\ probe \in
            {Probe("filterEntriesForEmployee",
                   [entries |-> l, employeeId |-> e, filters |-> f]) :
                l \in FilterEntryLists, e \in Employees, f \in EmployeeFilters}
            \cup {Probe("filterEntriesForAdmin", [entries |-> l, filters |-> f]) :
                    l \in FilterEntryLists, f \in AdminFilters}

FilterForEmployee ==
    Return("filterEntriesForEmployee",
           filterEntriesForEmployee(probe.args.entries, probe.args.employeeId,
                                    probe.args.filters))

FilterForAdmin ==
    Return("filterEntriesForAdmin",
           filterEntriesForAdmin(probe.args.entries, probe.args.filters))

NextFilters ==
    \/ FilterForEmployee
    \/ FilterForAdmin

SpecFilters == InitFilters /\ [][NextFilters]_vars

----------------------------------------------------------------------------
(* Employee allocations *)

\* Array.prototype.sort with (a, b) => b.effectiveFrom.getTime() -
\* a.effectiveFrom.getTime(): stable, the latest effectiveFrom first
RECURSIVE InsertByEffectiveFromDesc(_, _)
InsertByEffectiveFromDesc(sorted, a) ==
    IF sorted = <<>> THEN <<a>>
    ELSE IF Head(sorted).effectiveFrom[2] >= a.effectiveFrom[2]
    THEN <<Head(sorted)>> \o InsertByEffectiveFromDesc(Tail(sorted), a)
    ELSE <<a>> \o sorted

RECURSIVE SortByEffectiveFromDesc(_)
SortByEffectiveFromDesc(allocations) ==
    IF allocations = <<>> THEN <<>>
    ELSE InsertByEffectiveFromDesc(
             SortByEffectiveFromDesc(SubSeq(allocations, 1, Len(allocations) - 1)),
             allocations[Len(allocations)])

\* A lookup that leaves out the filter on the employee
getLatestAllocationOfAnyone(allocations, employeeId) ==
    IF allocations = <<>> THEN <<>>
    ELSE <<SortByEffectiveFromDesc(allocations)[1]>>

\* getEffectiveAllocation: employeeAllocations[0] in a sequence of length one, or
\* the empty sequence where it is undefined
getEffectiveAllocation(allocations, employeeId) ==
    LET employeeAllocations ==
            SortByEffectiveFromDesc(
                SelectSeq(allocations, LAMBDA a : a.employeeId = employeeId))
    IN  IF employeeAllocations = <<>> THEN <<>> ELSE <<employeeAllocations[1]>>

\* calculateCommissionReport over the entries of the map in the order of their
\* insertion, each a pair of an employee and a billable amount
RECURSIVE calculateCommissionReport(_, _)
calculateCommissionReport(employeeBillableAmounts, allocations) ==
    IF employeeBillableAmounts = <<>> THEN <<>>
    ELSE LET employeeId == Head(employeeBillableAmounts)[1]
             billableAmount == Head(employeeBillableAmounts)[2]
             allocation == getEffectiveAllocation(allocations, employeeId)
             allocationPercentage ==
                 IF allocation = <<>> THEN Num(0) ELSE allocation[1].percentage
         IN  <<[employeeId |-> employeeId,
                billableAmount |-> billableAmount,
                allocationPercentage |-> allocationPercentage,
                commission |-> calculateCommission(billableAmount,
                                                   allocationPercentage)]>>
             \o calculateCommissionReport(Tail(employeeBillableAmounts), allocations)

MaxAllocations == 3

AllocationId(n) == <<"allocation", n>>

\* The allocations a list may hold, less their ids: of one of two employees, at
\* 15% or 20%, effective from one of two instants
AllocationRows ==
    [employeeId : {"user-john", "user-jane"},
     percentage : {Percent(15), Percent(20)},
     effectiveFrom : {DateAt(StartTime), DateAt(StartTime + 1)}]

\* The lists of at most MaxAllocations allocations; createEmployeeAllocation
\* gives each its own id
AllocationLists ==
    {[i \in 1..n |-> [id |-> AllocationId(i), employeeId |-> rows[i].employeeId,
                      percentage |-> rows[i].percentage,
                      effectiveFrom |-> rows[i].effectiveFrom]] :
        <<n, rows>> \in UNION {{<<m, r>> : r \in [1..m -> AllocationRows]} :
                                   m \in 0..MaxAllocations}}

\* The employees asked for: two that may have allocations and one that has none
AllocationEmployees == {"user-john", "user-jane", "user-admin"}

\* The maps of billable amounts: of no employee, of one, and of two in both
\* orders of insertion
BillableAmountMaps ==
    {<<>>}
    \cup {<<<<e, a>>>> : e \in AllocationEmployees, a \in {Num(0), Num(26250)}}
    \cup {<<<<e, Num(26250)>>, <<f, Num(100000)>>>> :
            <<e, f>> \in {p \in AllocationEmployees \X AllocationEmployees :
                              p[1] # p[2]}}

InitAllocations ==
    /\ Idle
    /\ probe \in {Probe("getEffectiveAllocation",
                         [allocations |-> l, employeeId |-> e]) :
                      l \in AllocationLists, e \in AllocationEmployees}
                 \cup {Probe("calculateCommissionReport",
                             [employeeBillableAmounts |-> m, allocations |-> l]) :
                          m \in BillableAmountMaps, l \in AllocationLists}

EffectiveAllocation ==
    Return("getEffectiveAllocation",
           getEffectiveAllocation(probe.args.allocations, probe.args.employeeId))

CommissionReport ==
    Return("calculateCommissionReport",
           calculateCommissionReport(probe.args.employeeBillableAmounts,
                                     probe.args.allocations))

NextAllocations == EffectiveAllocation \/ CommissionReport

SpecAllocations == InitAllocations /\ [][NextAllocations]_vars

----------------------------------------------------------------------------
(* Date validation *)

FirstRefDay == StartTime \div DayMs
MaxRefDays == 2

\* The reference dates: the first and the last millisecond and the middle of
\* each of MaxRefDays days
ReferenceDates ==
    {day * DayMs + t : day \in FirstRefDay..(FirstRefDay + MaxRefDays - 1),
                       t \in {0, DayMs \div 2, DayMs - 1}}

\* The dates validated: Date objects at the first and the last millisecond of
\* every day from 32 days before the first reference day to the day after the
\* last, an invalid Date, texts that are dates and texts that are none, and
\* values that are neither a Date nor a text
ValidatedDates ==
    {DateAt(day * DayMs + t) :
        day \in (FirstRefDay - 32)..(FirstRefDay + MaxRefDays), t \in {0, DayMs - 1}}
    \cup {InvalidDate, Undefined, Num(20), Bool(TRUE)}
    \cup {Str(s) : s \in {"1970-01-21", "1970-01-21T23:59:59.999Z", "1970-01-22",
                          "1969-12-21", "", "not a date"}}

InitDates ==
    /\ Idle
    /\ probe \in {Probe("validateActivityDate", [date |-> d, referenceDate |-> ref]) :
                      d \in ValidatedDates, ref \in ReferenceDates}

ValidateDate ==
    Return("validateActivityDate",
           validateActivityDate(probe.args.date, probe.args.referenceDate))

NextDates == ValidateDate

SpecDates == InitDates /\ [][NextDates]_vars

----------------------------------------------------------------------------
(* Aggregation *)

\* a + b for JavaScript numbers
Plus(a, b) == IF IsNum(a) /\ IsNum(b) THEN Num(a[2] + b[2]) ELSE NaN

\* A Map as the sequence of its entries, pairs of a key and a value, in the order
\* of their insertion: get gives undefined for a key the map lacks, set replaces
\* the value of a key in place and puts a new key last
MapGet(map, key) ==
    IF \E i \in 1..Len(map) : map[i][1] = key
    THEN map[CHOOSE i \in 1..Len(map) : map[i][1] = key][2]
    ELSE Undefined

MapSet(map, key, value) ==
    IF \E i \in 1..Len(map) : map[i][1] = key
    THEN [i \in 1..Len(map) |-> IF map[i][1] = key THEN <<key, value>> ELSE map[i]]
    ELSE Append(map, <<key, value>>)

\* The map after a loop that adds, for each pair of a key and a value in turn,
\* the value to what the map holds for the key
RECURSIVE AccumulatePairs(_)
AccumulatePairs(pairs) ==
    IF pairs = <<>> THEN <<>>
    ELSE LET map == AccumulatePairs(SubSeq(pairs, 1, Len(pairs) - 1))
             key == pairs[Len(pairs)][1]
             value == pairs[Len(pairs)][2]
         IN  MapSet(map, key, Plus(Coalesce(MapGet(map, key), Num(0)), value))

\* The pairs of a key and a value that a loop over the entries adds to its map
PairsOf(entries, keyField, valueField) ==
    [i \in 1..Len(entries) |-> <<entries[i][keyField], entries[i][valueField]>>]

BillableOnly(entries) == SelectSeq(entries, LAMBDA e : e.billable = Bool(TRUE))

\* The rows of a map: Array.from(map.entries()).map(...)
RowsOf(map, keyField, totalField) ==
    [i \in 1..Len(map) |->
        [f \in {keyField, totalField} |->
            IF f = keyField THEN map[i][1] ELSE map[i][2]]]

\* An aggregation of the hours that counts the billable entries only
aggregateBillableHoursByEmployee(entries) ==
    RowsOf(AccumulatePairs(PairsOf(BillableOnly(entries), "employeeId", "duration")),
           "employeeId", "totalHours")

aggregateHoursByEmployee(entries) ==
    RowsOf(AccumulatePairs(PairsOf(entries, "employeeId", "duration")),
           "employeeId", "totalHours")

\* The sum of the durations of the entries that are billable, or of those that
\* are not
RECURSIVE HoursWhere(_, _)
HoursWhere(entries, billable) ==
    IF entries = <<>> THEN Num(0)
    ELSE IF entries[Len(entries)].billable = Bool(billable)
    THEN Plus(HoursWhere(SubSeq(entries, 1, Len(entries) - 1), billable),
              entries[Len(entries)].duration)
    ELSE HoursWhere(SubSeq(entries, 1, Len(entries) - 1), billable)

calculateBillableBreakdown(entries) ==
    [billableHours |-> HoursWhere(entries, TRUE),
     nonBillableHours |-> HoursWhere(entries, FALSE),
     totalHours |-> Plus(HoursWhere(entries, TRUE), HoursWhere(entries, FALSE))]

aggregateHoursByClient(entries) ==
    RowsOf(AccumulatePairs(PairsOf(entries, "clientId", "duration")),
           "clientId", "totalHours")

\* An aggregation of the revenue that counts the entries that are not billable too
aggregateRevenueOfAllEntries(entries) ==
    RowsOf(AccumulatePairs(PairsOf(entries, "employeeId", "amount")),
           "employeeId", "totalRevenue")

aggregateRevenueByConsultant(entries) ==
    RowsOf(AccumulatePairs(PairsOf(BillableOnly(entries), "employeeId", "amount")),
           "employeeId", "totalRevenue")

MaxAggregated == 3

\* The entries aggregated, less their ids: of one of two employees for one of two
\* clients, billable or not, of 1.50 hours with amount 150.00 or of 8.00 hours
\* with amount 0.00
AggregationRows ==
    {[employeeId |-> e, clientId |-> c, duration |-> Num(w[1]), billable |-> Bool(b),
      amount |-> Num(w[2]), activityDate |-> DateAt(StartTime)] :
        e \in {"user-john", "user-jane"}, c \in {"client-acme", "client-techstart"},
        b \in BOOLEAN, w \in {<<150, 15000>>, <<800, 0>>}}

AggregationEntryLists ==
    {[i \in 1..n |-> [id |-> EntryId(i), employeeId |-> rows[i].employeeId,
                      clientId |-> rows[i].clientId, duration |-> rows[i].duration,
                      billable |-> rows[i].billable, amount |-> rows[i].amount,
                      activityDate |-> rows[i].activityDate]] :
        <<n, rows>> \in UNION {{<<m, r>> : r \in [1..m -> AggregationRows]} :
                                   m \in 0..MaxAggregated}}

InitAggregation ==
    /\ Idle
    /\ probe \in {Probe(fn, [entries |-> l]) :
                      fn \in {"aggregateHoursByEmployee", "calculateBillableBreakdown",
                              "aggregateHoursByClient", "aggregateRevenueByConsultant"},
                      l \in AggregationEntryLists}

HoursByEmployee ==
    Return("aggregateHoursByEmployee", aggregateHoursByEmployee(probe.args.entries))

BillableBreakdown ==
    Return("calculateBillableBreakdown", calculateBillableBreakdown(probe.args.entries))

HoursByClient ==
    Return("aggregateHoursByClient", aggregateHoursByClient(probe.args.entries))

RevenueByConsultant ==
    Return("aggregateRevenueByConsultant",
           aggregateRevenueByConsultant(probe.args.entries))

NextAggregation ==
    \/ HoursByEmployee
    \/ BillableBreakdown
    \/ HoursByClient
    \/ RevenueByConsultant

SpecAggregation == InitAggregation /\ [][NextAggregation]_vars

----------------------------------------------------------------------------
(* Claims about the time entry core *)

\* The fields of an input that the validators refuse; an update validates only the
\* fields it is given
InvalidFields(op, input) ==
    {f \in {"rate", "duration", "activityDate"} :
        /\ op = "create" \/ Get(input, f) # Undefined
        /\ ~(CASE f = "rate" -> validateRate(Get(input, f))
               [] f = "duration" -> validateDuration(Get(input, f))
               [] f = "activityDate" -> validateActivityDate(Get(input, f), now)).valid}

Modifies == result.op \in {"update", "delete"}
Writes == result.op \in {"create", "update", "delete"}
Target == call.old[1]

\* C1: an update with valid input, or a delete, of an existing entry succeeds if
\* and only if the requester is the entry's employee and at most 24 hours have
\* passed since the entry was created
C1_ModifyIffOwnerWithinWindow ==
    (Modifies /\ call.old # <<>> /\ InvalidFields(result.op, call.input) = {}) =>
        (result.code = OK <=>
            (call.user = Target.employeeId
             /\ now - Target.createdAt <= 24 * 60 * 60 * 1000))

\* C1 witness: an update that succeeded exactly 24 hours after the creation
C1_Witness ==
    /\ result.op = "update"
    /\ result.code = OK
    /\ call.old # <<>>
    /\ now - Target.createdAt = 24 * 60 * 60 * 1000

\* C2: an update or delete of an unknown id ends in NotFound, of an existing entry
\* by a non-owner in Forbidden whether or not the window has expired, of an
\* existing entry by its owner after the window in ModificationWindowExpired; the
\* three codes differ pairwise
C2_FailurePrecedence ==
    /\ Modifies =>
        /\ call.old = <<>> => result.code = RESOURCE_NOT_FOUND
        /\ (call.old # <<>> /\ call.user # Target.employeeId) =>
                result.code = AUTHORIZATION_DENIED
        /\ (call.old # <<>> /\ call.user = Target.employeeId
            /\ now - Target.createdAt > 24 * 60 * 60 * 1000) =>
                result.code = MODIFICATION_WINDOW_EXPIRED
    /\ RESOURCE_NOT_FOUND # AUTHORIZATION_DENIED
    /\ RESOURCE_NOT_FOUND # MODIFICATION_WINDOW_EXPIRED
    /\ AUTHORIZATION_DENIED # MODIFICATION_WINDOW_EXPIRED

\* C2 witness: a non-owner was refused after the window had expired
C2_Witness ==
    /\ Modifies
    /\ call.old # <<>>
    /\ call.user # Target.employeeId
    /\ now - Target.createdAt > 24 * 60 * 60 * 1000
    /\ result.code = AUTHORIZATION_DENIED

Round2Product(rate, duration) == (rate * duration + 50) \div 100

AmountMatches(e) ==
    IF e.billable = Bool(TRUE)
    THEN /\ IsNum(e.rate)
         /\ IsNum(e.duration)
         /\ e.amount = Num(Round2Product(e.rate[2], e.duration[2]))
    ELSE e.amount = Num(0)

\* C4: every stored entry has amount = round2(rate * duration) when billable and
\* amount = 0 when not, for its stored rate, duration and billable
C4_AmountInvariant ==
    \A i \in 1..Len(timeEntries) : AmountMatches(timeEntries[i])

\* C5: a successful create by u adds exactly one entry, pending, owned by u, with
\* the amount of the submitted rate, duration and billable, and a query of u's
\* entries returns it
C5_CreatePersists ==
    [][(result'.op = "create" /\ result'.code = OK) =>
        LET e == timeEntries'[Len(timeEntries')]
            mine == dbGetTimeEntriesForUser(timeEntries', call'.user, <<>>)
        IN  /\ Len(timeEntries') = Len(timeEntries) + 1
            /\ SubSeq(timeEntries', 1, Len(timeEntries)) = timeEntries
            /\ e.status = "pending"
            /\ e.employeeId = call'.user
            /\ e.amount = (IF call'.input.billable = Bool(TRUE)
                           THEN Num(Round2Product(call'.input.rate[2],
                                                  call'.input.duration[2]))
                           ELSE Num(0))
            /\ \E k \in 1..Len(mine) : mine[k] = e]_vars

\* C5 witness: a non-billable entry has just been created
C5_Witness ==
    /\ result.op = "create"
    /\ result.code = OK
    /\ call.input.billable = Bool(FALSE)
    /\ timeEntries # <<>>


StatusSteps ==
    {<<timeEntries[i].status, timeEntries'[j].status>> :
        <<i, j>> \in {p \in (1..Len(timeEntries)) \X (1..Len(timeEntries')) :
                        /\ timeEntries[p[1]].id = timeEntries'[p[2]].id
                        /\ timeEntries[p[1]].status # timeEntries'[p[2]].status}}

\* C6 as stated: every change of an entry's status is pending -> approved,
\* pending -> rejected, approved -> rejected or rejected -> approved
C6_OnlySpecifiedTransitions ==
    [][StatusSteps \subseteq
            {<<"pending", "approved">>, <<"pending", "rejected">>,
             <<"approved", "rejected">>, <<"rejected", "approved">>}]_vars

\* C6 as amended: every change of an entry's status leads from one of pending,
\* approved, rejected to another of them; besides the four transitions above,
\* approved -> pending and rejected -> pending happen too
C6_TransitionsAmongStatuses ==
    [][StatusSteps \subseteq
            {<<"pending", "approved">>, <<"pending", "rejected">>,
             <<"approved", "rejected">>, <<"rejected", "approved">>,
             <<"approved", "pending">>, <<"rejected", "pending">>}]_vars

\* C6 witness: an administrator has just set an approved entry back to pending
C6_Witness ==
    /\ result.op = "status"
    /\ result.code = OK
    /\ call.old # <<>>
    /\ Target.status = "approved"
    /\ \E i \in 1..Len(timeEntries) :
            timeEntries[i].id = call.id /\ timeEntries[i].status = "pending"

\* C7: a status request of a user who is no administrator ends in Forbidden and
\* changes nothing; every stored status is pending, approved or rejected; a status
\* changes only in an administrator's status request
C7_StatusAdminOnly ==
    [][/\ (result'.op = "status" /\ Role(call'.user) # "administrator") =>
            (result'.code = AUTHORIZATION_DENIED /\ timeEntries' = timeEntries)
       /\ \A i \in 1..Len(timeEntries') :
            timeEntries'[i].status \in {"pending", "approved", "rejected"}
       /\ StatusSteps # {} =>
            (result'.op = "status" /\ Role(call'.user) = "administrator")]_vars

\* C7 witness: an employee asked to approve a stored pending entry and was refused
C7_Witness ==
    /\ result.op = "status"
    /\ Role(call.user) = "employee"
    /\ result.code = AUTHORIZATION_DENIED
    /\ call.old # <<>>
    /\ Target.status = "pending"
    /\ call.input.status = "approved"

\* C8: the ValidationError of a create or update names every invalid field of the
\* input
C8_AllInvalidFieldsNamed ==
    (result.op \in {"create", "update"} /\ result.code = VALIDATION_ERROR) =>
        DOMAIN result.details = InvalidFields(result.op, call.input)

\* C9: a successful create, update or delete appends one audit entry with that
\* action, the acting user and the entry id; any other step appends none
C9_AuditAlongsideWrite ==
    [][IF result'.op \in {"create", "update", "delete"} /\ result'.code = OK
       THEN /\ Len(auditLog') = Len(auditLog) + 1
            /\ auditLog'[Len(auditLog')].action = result'.op
            /\ auditLog'[Len(auditLog')].userId = call'.user
            /\ auditLog'[Len(auditLog')].entityId =
                    (IF result'.op = "create" THEN EntryId(entryCounter')
                     ELSE call'.id)
       ELSE auditLog' = auditLog]_vars

----------------------------------------------------------------------------
(* Claims about the invoice number generator *)

\* The number that a string of digits writes
RECURSIVE DigitsValue(_)
DigitsValue(s) ==
    IF s = <<>> THEN 0
    ELSE 10 * DigitsValue(SubSeq(s, 1, Len(s) - 1)) + s[Len(s)]

\* The sequence part of an invoice number: what follows its last dash
SequencePart(number) == DigitsValue(number[3])

\* C10: the invoice numbers returned in one process are pairwise distinct, their
\* sequence parts strictly increase from call to call, and no number is a member
\* of the set of existing numbers its call was given
C10_NumbersDistinctIncreasing ==
    /\ \A i, j \in 1..Len(issued) :
            i < j =>
                /\ issued[i].number # issued[j].number
                /\ SequencePart(issued[i].number) < SequencePart(issued[j].number)
    /\ \A i \in 1..Len(issued) : issued[i].number \notin issued[i].existing

\* C10 witness: a generateInvoice call was given a set holding its first candidate
\* and returned a later number, after an earlier call in the same process
C10_Witness ==
    /\ Len(issued) >= 2
    /\ invoice # NoInvoice
    /\ invoice.invoiceNumber = issued[Len(issued)].number
    /\ \E n \in issued[Len(issued)].existing :
            /\ n[1] = "INV"
            /\ n[2] = year
            /\ SequencePart(n) = SequencePart(issued[Len(issued) - 1].number) + 1
    /\ SequencePart(issued[Len(issued)].number)
            > SequencePart(issued[Len(issued) - 1].number) + 1

----------------------------------------------------------------------------
(* Claims about generated invoices *)

\* What a reader of a line item field sees: the number it holds, or the field of
\* the stored entry it names
ReadField(v) ==
    IF v[1] = "ref"
    THEN IF findTimeEntryById(timeEntries, v[2]) = <<>> THEN Undefined
         ELSE Get(findTimeEntryById(timeEntries, v[2])[1], v[3])
    ELSE v

\* The amounts, quantities and rates of the line items and the totals of the
\* invoice, as a reader sees them now
InvoiceFigures ==
    [items |-> [i \in 1..Len(invoice.lineItems) |->
                    [amount |-> ReadField(invoice.lineItems[i].amount),
                     quantity |-> ReadField(invoice.lineItems[i].quantity),
                     rate |-> ReadField(invoice.lineItems[i].rate)]],
     subtotal |-> invoice.subtotal,
     total |-> invoice.total]

\* C11: once an invoice is generated, no update, delete or status change of the
\* stored entries changes its line item amounts, quantities, rates, subtotal or
\* total
C11_InvoiceIsSnapshot ==
    [][(invoice # NoInvoice /\ issued' = issued) =>
            /\ invoice' # NoInvoice
            /\ InvoiceFigures' = InvoiceFigures]_vars

\* C11 witness: the entry of a line item has had its rate changed after the
\* invoice was generated
C11_Witness ==
    /\ invoice # NoInvoice
    /\ result.op = "update"
    /\ result.code = OK
    /\ \E i \in 1..Len(invoice.lineItems), j \in 1..Len(timeEntries) :
            /\ invoice.lineItems[i].timeEntryId = timeEntries[j].id
            /\ timeEntries[j].rate # invoice.lineItems[i].rate

\* The positions of the entries that an invoice is to hold: those of the client
\* asked for, billable, with an activity date from the start date to the end date
Selected(input, entries) ==
    {i \in 1..Len(entries) :
        /\ entries[i].clientId = input.clientId
        /\ entries[i].billable = Bool(TRUE)
        /\ input.startDate[2] <= entries[i].activityDate[2]
        /\ entries[i].activityDate[2] <= input.endDate[2]}

\* The k-th smallest member of a set of positions
KthOf(positions, k) ==
    CHOOSE i \in positions : Cardinality({j \in positions : j < i}) = k - 1

TimeEntryItems(lineItems) ==
    SelectSeq(lineItems, LAMBDA item : item.type = "time_entry")

\* C12: the time entry line items of a generated invoice are, in the order of the
\* entries given, one for each entry of the client asked for that is billable and
\* dated within the range, bounds included, and each holds the id, the duration
\* as quantity, the rate and the stored amount of its entry
C12_LineItemsAreSelectedEntries ==
    "entries" \in DOMAIN call =>
        LET items == TimeEntryItems(invoice.lineItems)
            selected == Selected(call.input, call.entries)
        IN  /\ Len(items) = Cardinality(selected)
            /\ \A k \in 1..Len(items) :
                LET entry == call.entries[KthOf(selected, k)]
                IN  /\ items[k].timeEntryId = entry.id
                    /\ items[k].quantity = entry.duration
                    /\ items[k].rate = entry.rate
                    /\ items[k].amount = entry.amount

\* C12 witness: an invoice of some but not all of the entries given, one of them
\* dated on the end date, one with a stored amount that is not rate times duration
C12_Witness ==
    /\ "entries" \in DOMAIN call
    /\ Len(TimeEntryItems(invoice.lineItems)) >= 2
    /\ Len(TimeEntryItems(invoice.lineItems)) < Len(call.entries)
    /\ \E k \in 1..Len(invoice.lineItems), i \in 1..Len(call.entries) :
            /\ invoice.lineItems[k].timeEntryId = call.entries[i].id
            /\ call.entries[i].activityDate = call.input.endDate
    /\ \E k \in 1..Len(invoice.lineItems) :
            /\ invoice.lineItems[k].type = "time_entry"
            /\ invoice.lineItems[k].amount
                    # Num(Round2Product(invoice.lineItems[k].rate[2],
                                        invoice.lineItems[k].quantity[2]))

\* The sum of the amounts of the first n of a sequence of items or charges
RECURSIVE AmountOfFirst(_, _)
AmountOfFirst(items, n) ==
    IF n = 0 THEN 0 ELSE AmountOfFirst(items, n - 1) + items[n].amount[2]

ChargesOf(input) ==
    IF "additionalCharges" \in DOMAIN input THEN input.additionalCharges ELSE <<>>

\* C13: a generated invoice holds the items of the selected entries followed by
\* one item for each additional charge, of quantity 1, type additional_charge,
\* no time entry and the amount of the charge; its subtotal and its total are
\* the sum of the amounts of all its items; its status is draft
C13_TotalsAndCharges ==
    "entries" \in DOMAIN call =>
        LET items == invoice.lineItems
            n == Cardinality(Selected(call.input, call.entries))
            charges == ChargesOf(call.input)
        IN  /\ Len(items) = n + Len(charges)
            /\ \A k \in 1..n : items[k].type = "time_entry"
            /\ \A k \in 1..Len(charges) :
                    /\ items[n + k].type = "additional_charge"
                    /\ items[n + k].quantity = Num(1)
                    /\ items[n + k].timeEntryId = Null
                    /\ items[n + k].amount = charges[k].amount
            /\ invoice.subtotal = Num(AmountOfFirst(items, Len(items)))
            /\ invoice.total = invoice.subtotal
            /\ invoice.status = "draft"

\* C13 witness: an invoice of one time entry and two additional charges, whose
\* total is 600.00 + 50.00 + 12.50
C13_Witness ==
    /\ "entries" \in DOMAIN call
    /\ Len(TimeEntryItems(invoice.lineItems)) = 1
    /\ Len(invoice.lineItems) = 3
    /\ invoice.total = Num(66250)

----------------------------------------------------------------------------
(* Claims about rate resolution *)

Resolved == probe.fn = "getEffectiveRate" /\ probe.returned

\* The hourly rates that a table holds for a service and an employee (Null for
\* the default rates of the service)
RatesFor(rates, serviceId, employeeId) ==
    {rates[i].hourlyRate : i \in {j \in 1..Len(rates) :
                                    /\ rates[j].serviceId = serviceId
                                    /\ rates[j].employeeId = employeeId}}

\* C14: getEffectiveRate returns a rate of the table for the service and the
\* employee when there is one, whatever the order of the table and the values;
\* otherwise a default rate of the service when there is one; otherwise null
C14_EmployeeRateThenDefault ==
    Resolved =>
        LET own == IF probe.args.employeeId \in {Undefined, Str("")} THEN {}
                   ELSE RatesFor(probe.args.rates, probe.args.serviceId,
                                 probe.args.employeeId)
            default == RatesFor(probe.args.rates, probe.args.serviceId, Null)
        IN  IF own # {} THEN probe.out \in own
            ELSE IF default # {} THEN probe.out \in default
            ELSE probe.out = Null

\* C14 witness: the table holds the default rate of the service before the rate
\* of the employee, and a greater one, and the rate of the employee is returned
C14_Witness ==
    /\ Resolved
    /\ Len(probe.args.rates) >= 2
    /\ probe.args.rates[1].serviceId = probe.args.serviceId
    /\ probe.args.rates[1].employeeId = Null
    /\ probe.args.rates[2].serviceId = probe.args.serviceId
    /\ probe.args.rates[2].employeeId = probe.args.employeeId
    /\ probe.args.rates[1].hourlyRate[2] > probe.args.rates[2].hourlyRate[2]
    /\ probe.out = probe.args.rates[2].hourlyRate

\* The rate pushed last among those of a table for a service and an employee
LatestRateFor(rates, serviceId, employeeId) ==
    LET at == {j \in 1..Len(rates) : /\ rates[j].serviceId = serviceId
                                     /\ rates[j].employeeId = employeeId}
    IN  rates[CHOOSE j \in at : \A k \in at : k <= j].hourlyRate

\* C15: of several rates of the table for the same service and employee, or of
\* several default rates of the same service, the resolution returns the most
\* recent, the one pushed last
C15_MostRecentRateWins ==
    Resolved =>
        LET own == IF probe.args.employeeId \in {Undefined, Str("")} THEN {}
                   ELSE RatesFor(probe.args.rates, probe.args.serviceId,
                                 probe.args.employeeId)
            default == RatesFor(probe.args.rates, probe.args.serviceId, Null)
        IN  IF own # {}
            THEN probe.out = LatestRateFor(probe.args.rates, probe.args.serviceId,
                                           probe.args.employeeId)
            ELSE default # {} =>
                    probe.out = LatestRateFor(probe.args.rates,
                                              probe.args.serviceId, Null)

----------------------------------------------------------------------------
(* Claims about filtering *)

\* An entry satisfies the filters given: the client is the one asked for, the
\* activity date is on or after the start date and on or before the end date,
\* billable is as asked for
Satisfies(entry, filters) ==
    /\ "clientId" \in DOMAIN filters => entry.clientId = filters.clientId
    /\ "startDate" \in DOMAIN filters => filters.startDate[2] <= entry.activityDate[2]
    /\ "endDate" \in DOMAIN filters => entry.activityDate[2] <= filters.endDate[2]
    /\ "billable" \in DOMAIN filters => entry.billable = filters.billable

\* A sequence is the entries at the given positions of another, in their order
IsSubsequenceAt(out, entries, positions) ==
    /\ Len(out) = Cardinality(positions)
    /\ \A k \in 1..Len(out) : out[k] = entries[KthOf(positions, k)]

\* C16: filterEntriesForEmployee returns, in the order of the input and each
\* once, exactly the entries of the employee that satisfy every filter given
C16_EmployeeFilterExact ==
    (probe.fn = "filterEntriesForEmployee" /\ probe.returned) =>
        IsSubsequenceAt(probe.out, probe.args.entries,
            {i \in 1..Len(probe.args.entries) :
                /\ probe.args.entries[i].employeeId = probe.args.employeeId
                /\ Satisfies(probe.args.entries[i], probe.args.filters)})

\* C16 witness: asked for the entries that are not billable, the filter kept the
\* second of two entries of the employee and dropped the first
C16_Witness ==
    /\ probe.fn = "filterEntriesForEmployee"
    /\ probe.returned
    /\ "billable" \in DOMAIN probe.args.filters
    /\ probe.args.filters.billable = Bool(FALSE)
    /\ Len(probe.args.entries) = 2
    /\ probe.args.entries[1].employeeId = probe.args.employeeId
    /\ probe.out = <<probe.args.entries[2]>>

\* C17: filterEntriesForAdmin returns, in the order of the input, exactly the
\* entries that satisfy all of the filters given at once, date bounds included;
\* a filter left out asks nothing, and without filters the input is returned
C17_AdminFilterConjunctive ==
    (probe.fn = "filterEntriesForAdmin" /\ probe.returned) =>
        /\ IsSubsequenceAt(probe.out, probe.args.entries,
                {i \in 1..Len(probe.args.entries) :
                    /\ "employeeId" \in DOMAIN probe.args.filters =>
                            Str(probe.args.entries[i].employeeId)
                                = probe.args.filters.employeeId
                    /\ Satisfies(probe.args.entries[i], probe.args.filters)})
        /\ DOMAIN probe.args.filters = {} => probe.out = probe.args.entries

\* C17 witness: given an employee, a start date and an end date, the filter kept
\* an entry dated on both bounds and dropped an entry that satisfies the date
\* filters but is of another employee
C17_Witness ==
    /\ probe.fn = "filterEntriesForAdmin"
    /\ probe.returned
    /\ {"employeeId", "startDate", "endDate"} \subseteq DOMAIN probe.args.filters
    /\ Len(probe.args.entries) = 2
    /\ probe.out = <<probe.args.entries[1]>>
    /\ probe.args.entries[1].activityDate = probe.args.filters.startDate
    /\ probe.args.entries[2].activityDate = probe.args.filters.endDate
    /\ Str(probe.args.entries[2].employeeId) # probe.args.filters.employeeId

----------------------------------------------------------------------------
(* Claims about the listing of the stored entries *)

\* C18: every entry that GET /api/time-entries returns to an employee is an entry
\* of that employee, whatever the query, an employeeId of another user included;
\* an entry of another user is returned to administrators only
C18_EmployeeSeesOwnEntriesOnly ==
    result.op = "list" =>
        /\ Role(call.user) = "employee" =>
                \A i \in 1..Len(result.entries) :
                    result.entries[i].employeeId = call.user
        /\ (\E i \in 1..Len(result.entries) :
                result.entries[i].employeeId # call.user) =>
                    Role(call.user) = "administrator"

\* C18 witness: an employee asked for the entries of another employee, who has
\* one stored, and was returned an entry of their own
C18_Witness ==
    /\ result.op = "list"
    /\ Role(call.user) = "employee"
    /\ call.input.employeeId # Undefined
    /\ call.input.employeeId # Str(call.user)
    /\ \E i \in 1..Len(timeEntries) :
            Str(timeEntries[i].employeeId) = call.input.employeeId
    /\ Len(result.entries) = 1

----------------------------------------------------------------------------
(* Claims about the role middleware *)

\* C19: a role middleware calls next exactly once: without an error if and only
\* if the request carries a user whose role is among the allowed roles (for
\* adminMiddleware: administrator), with an authentication error of status 401
\* when the request carries no user, with an authorization error of status 403
\* when the user's role is not among the allowed roles
C19_RoleMiddlewareDecides ==
    (probe.fn \in {"adminMiddleware", "roleMiddleware", "requireRole"}
     /\ probe.returned) =>
        LET req == probe.args.req
            allowed == "user" \in DOMAIN req /\ req.user.role \in probe.args.allowedRoles
        IN  /\ Len(probe.out) = 1
            /\ probe.out[1] = <<"next">> <=> allowed
            /\ "user" \notin DOMAIN req =>
                    probe.out[1] = <<"next", "AUTHENTICATION_REQUIRED", 401>>
            /\ ("user" \in DOMAIN req /\ ~allowed) =>
                    probe.out[1] = <<"next", "AUTHORIZATION_DENIED", 403>>

\* C19 witness: a middleware that allows employees only has refused an
\* administrator
C19_Witness ==
    /\ probe.fn = "roleMiddleware"
    /\ probe.returned
    /\ probe.args.allowedRoles = {"employee"}
    /\ "user" \in DOMAIN probe.args.req
    /\ probe.args.req.user.role = "administrator"
    /\ probe.out = <<<<"next", "AUTHORIZATION_DENIED", 403>>>>

----------------------------------------------------------------------------
(* Claims about the commission *)

\* C20: for an amount of at least 0 and a percentage from 0 to 100,
\* calculateCommission returns amount * percentage / 100, so nothing at 0 % and
\* the amount at 100 %; for a negative amount or a percentage below 0 or above
\* 100 it returns 0 (amounts and percentages being numbers)
C20_CommissionIsShare ==
    (probe.fn = "calculateCommission" /\ probe.returned
     /\ IsNum(probe.args.billableAmount)
     /\ IsNum(probe.args.allocationPercentage)) =>
        LET cents == probe.args.billableAmount[2]
            hundredths == probe.args.allocationPercentage[2]
        IN  IF cents >= 0 /\ hundredths >= 0 /\ hundredths <= 100 * 100
            THEN /\ IsNum(probe.out)
                 \* in millionths: (cents * 10000) * (hundredths / 100) / 100
                 /\ probe.out[2] = cents * hundredths
                 /\ hundredths = 0 => probe.out[2] = 0
                 /\ hundredths = 100 * 100 => probe.out[2] = cents * 10000
            ELSE probe.out = Num(0)

\* C20 witness: at 100 % the commission of 262.50 is 262.50
C20_Witness ==
    /\ probe.fn = "calculateCommission"
    /\ probe.returned
    /\ probe.args.billableAmount = Num(26250)
    /\ probe.args.allocationPercentage = Num(10000)
    /\ probe.out = Num(262500000)

----------------------------------------------------------------------------
(* Claims about employee allocations *)

\* The positions of the allocations of an employee in a list, and those among
\* them whose effectiveFrom none of the employee's allocations exceeds
AllocationsOf(allocations, employeeId) ==
    {i \in 1..Len(allocations) : allocations[i].employeeId = employeeId}

LatestOf(allocations, employeeId) ==
    {i \in AllocationsOf(allocations, employeeId) :
        \A j \in AllocationsOf(allocations, employeeId) :
            allocations[j].effectiveFrom[2] <= allocations[i].effectiveFrom[2]}

\* The orders of a list
Orders(n) ==
    {f \in [1..n -> 1..n] : \A i, j \in 1..n : f[i] = f[j] => i = j}

Permuted(list, f) == [i \in 1..Len(list) |-> list[f[i]]]

\* The rows of a commission report follow the map; an employee without an
\* allocation gets 0% and, for an amount that is a number, commission 0, and the
\* percentage of a row is that of an allocation of its own employee
ReportUsesOwnAllocation ==
    (probe.fn = "calculateCommissionReport" /\ probe.returned) =>
        LET amounts == probe.args.employeeBillableAmounts
            allocations == probe.args.allocations
        IN  /\ Len(probe.out) = Len(amounts)
            /\ \A k \in 1..Len(amounts) :
                 LET row == probe.out[k]
                     own == AllocationsOf(allocations, amounts[k][1])
                 IN  /\ row.employeeId = amounts[k][1]
                     /\ row.billableAmount = amounts[k][2]
                     /\ own = {} =>
                          /\ row.allocationPercentage = Num(0)
                          /\ IsNum(row.billableAmount) => row.commission = Num(0)
                     /\ own # {} =>
                          \E i \in LatestOf(allocations, amounts[k][1]) :
                              row.allocationPercentage = allocations[i].percentage

----------------------------------------------------------------------------
(* Claims about date validation *)

\* The calendar day, counted from the epoch, that a date falls on: of a Date
\* object its timestamp's, of a text the day it names; none for anything else
CalendarDay(d) ==
    IF IsDate(d) THEN <<d[2] \div DayMs>>
    ELSE IF d = Str("1970-01-21") \/ d = Str("1970-01-21T23:59:59.999Z") THEN <<20>>
    ELSE IF d = Str("1970-01-22") THEN <<21>>
    ELSE IF d = Str("1969-12-21") THEN <<-11>>
    ELSE <<>>

\* C22: validateActivityDate(d, ref) is valid exactly when d is a real calendar
\* date whose day is not after the day of ref and not more than 30 days before it,
\* whatever the time of day of d and of ref; an input that is not valid comes back
\* as a result with valid = false and an error.
C22_ValidDateIffWithinThirtyDays ==
    (probe.fn = "validateActivityDate" /\ probe.returned) =>
        LET day == CalendarDay(probe.args.date)
            refDay == probe.args.referenceDate \div DayMs
        IN  /\ probe.out.valid \in BOOLEAN
            /\ probe.out.valid <=>
                 /\ day # <<>>
                 /\ day[1] <= refDay
                 /\ refDay - day[1] <= 30
            /\ ~probe.out.valid => "error" \in DOMAIN probe.out

\* A date at the last millisecond of the thirtieth day before a reference date at
\* the first millisecond of its day was validated and accepted
C22_Witness ==
    /\ probe.fn = "validateActivityDate"
    /\ probe.returned
    /\ probe.args.referenceDate = FirstRefDay * DayMs
    /\ probe.args.date = DateAt((FirstRefDay - 30) * DayMs + (DayMs - 1))
    /\ probe.out = Valid

----------------------------------------------------------------------------
(* Claims about aggregation *)

\* The sum of a numeric field over the entries at the given positions
RECURSIVE SumAt(_, _, _)
SumAt(entries, field, positions) ==
    IF positions = {} THEN 0
    ELSE LET i == CHOOSE j \in positions : TRUE
         IN  entries[i][field][2] + SumAt(entries, field, positions \ {i})

\* The rows of a grouping: one for each of the given keys and no other, each with
\* the sum of field over the entries that count and have the row's key
GroupsExactly(rows, keyField, totalField, entries, field, counted) ==
    LET keys == {entries[i][keyField] : i \in counted}
    IN  /\ {rows[k][keyField] : k \in 1..Len(rows)} = keys
        /\ Len(rows) = Cardinality(keys)
        /\ \A k \in 1..Len(rows) :
             rows[k][totalField]
                 = Num(SumAt(entries, field,
                             {i \in counted : entries[i][keyField] = rows[k][keyField]}))

BillablePositions(entries) ==
    {i \in 1..Len(entries) : entries[i].billable = Bool(TRUE)}

\* C23: aggregateRevenueByConsultant has exactly one row for each employee with at
\* least one billable entry, with the sum of the amounts of that employee's
\* billable entries as totalRevenue, and no row for an employee whose entries are
\* all non-billable, whatever their amounts.
C23_RevenueOfBillableEntriesOnly ==
    (probe.fn = "aggregateRevenueByConsultant" /\ probe.returned) =>
        /\ GroupsExactly(probe.out, "employeeId", "totalRevenue", probe.args.entries,
                         "amount", BillablePositions(probe.args.entries))
        /\ \A i \in 1..Len(probe.args.entries) :
             (\A j \in 1..Len(probe.args.entries) :
                 probe.args.entries[j].employeeId = probe.args.entries[i].employeeId
                     => probe.args.entries[j].billable = Bool(FALSE))
             => \A k \in 1..Len(probe.out) :
                    probe.out[k].employeeId # probe.args.entries[i].employeeId

\* One employee has a billable entry of 150.00 and a non-billable one of 150.00,
\* another only a non-billable entry of 150.00: the revenue has the one row of the
\* first, with 150.00
C23_Witness ==
    /\ probe.fn = "aggregateRevenueByConsultant"
    /\ probe.returned
    /\ Len(probe.args.entries) = 3
    /\ probe.args.entries[1].employeeId = "user-jane"
    /\ probe.args.entries[1].billable = Bool(FALSE)
    /\ probe.args.entries[1].amount = Num(15000)
    /\ probe.args.entries[2].employeeId = "user-john"
    /\ probe.args.entries[2].billable = Bool(FALSE)
    /\ probe.args.entries[2].amount = Num(15000)
    /\ probe.args.entries[3].employeeId = "user-john"
    /\ probe.args.entries[3].billable = Bool(TRUE)
    /\ probe.args.entries[3].amount = Num(15000)
    /\ probe.out = <<[employeeId |-> "user-john", totalRevenue |-> Num(15000)]>>

\* C24: aggregateHoursByEmployee and aggregateHoursByClient have exactly one row
\* for each employee, or client, occurring in the entries, with the sum of the
\* durations of its entries; calculateBillableBreakdown gives billableHours +
\* nonBillableHours = totalHours = the sum of all durations; no entries give no
\* rows and zero hours.
C24_HoursConserved ==
    LET entries == probe.args.entries
        all == 1..Len(entries)
    IN  /\ (probe.fn = "aggregateHoursByEmployee" /\ probe.returned) =>
             /\ GroupsExactly(probe.out, "employeeId", "totalHours", entries,
                              "duration", all)
             /\ entries = <<>> => probe.out = <<>>
        /\ (probe.fn = "aggregateHoursByClient" /\ probe.returned) =>
             /\ GroupsExactly(probe.out, "clientId", "totalHours", entries,
                              "duration", all)
             /\ entries = <<>> => probe.out = <<>>
        /\ (probe.fn = "calculateBillableBreakdown" /\ probe.returned) =>
             /\ probe.out.billableHours
                    = Num(SumAt(entries, "duration", BillablePositions(entries)))
             /\ probe.out.nonBillableHours
                    = Num(SumAt(entries, "duration", all \ BillablePositions(entries)))
             /\ probe.out.totalHours = Num(SumAt(entries, "duration", all))
             /\ probe.out.billableHours[2] + probe.out.nonBillableHours[2]
                    = probe.out.totalHours[2]
             /\ entries = <<>> =>
                  probe.out = [billableHours |-> Num(0), nonBillableHours |-> Num(0),
                               totalHours |-> Num(0)]

\* The hours of three entries were grouped by employee: 9.50 hours of two entries
\* of one employee, one of them not billable, and 1.50 hours of another
C24_Witness ==
    /\ probe.fn = "aggregateHoursByEmployee"
    /\ probe.returned
    /\ Len(probe.args.entries) = 3
    /\ probe.args.entries[1].billable = Bool(FALSE)
    /\ probe.args.entries[3].billable = Bool(TRUE)
    /\ probe.out = <<[employeeId |-> "user-john", totalHours |-> Num(950)],
                     [employeeId |-> "user-jane", totalHours |-> Num(150)]>>

----------------------------------------------------------------------------
(* Further claims about the time entry core *)

\* C25: in every state reached by createTimeEntry and updateTimeEntry calls, every
\* stored entry has a rate that is a number above 0 and a duration that is a
\* number above 0 and of at most 24 hours.
C25_StoredRateAndDurationInRange ==
    \A i \in 1..Len(timeEntries) :
        /\ IsNum(timeEntries[i].rate)
        /\ timeEntries[i].rate[2] > 0
        /\ IsNum(timeEntries[i].duration)
        /\ timeEntries[i].duration[2] > 0
        /\ timeEntries[i].duration[2] <= 2400

C28_IdsNeverReused ==
    [][/\ \A i, j \in 1..Len(timeEntries') :
            timeEntries'[i].id = timeEntries'[j].id => i = j
       /\ (result'.op = "create" /\ result'.code = OK) =>
            /\ timeEntries'[Len(timeEntries')].id \notin assigned
            /\ \A i \in 1..Len(timeEntries) :
                 timeEntries'[Len(timeEntries')].id # timeEntries[i].id]_vars

\* The first entry was deleted, and the entry created after that has the second id
C28_Witness ==
    /\ result.op = "create"
    /\ result.code = OK
    /\ assigned = {EntryId(1), EntryId(2)}
    /\ Len(timeEntries) = 1
    /\ timeEntries[1].id = EntryId(2)

----------------------------------------------------------------------------
(* Claims about the seed data *)

\* How often a value occurs in a sequence
Occurrences(seq, x) == Cardinality({i \in 1..Len(seq) : seq[i] = x})

OnceEach(seq, seeds) ==
    /\ Len(seq) = Len(seeds)
    /\ \A k \in 1..Len(seeds) : Occurrences(seq, seeds[k]) = 1

\* C27: once a call of initialize() has returned, whatever calls overlapped with
\* it, each seed user, client, service, rate and allocation is in the store
\* exactly once.
C27_SeedLoadedOnce ==
    seed.returned > 0 =>
        /\ OnceEach(seed.users, SeedUsers)
        /\ OnceEach(seed.clients, SeedClients)
        /\ OnceEach(seed.services, SeedServices)
        /\ OnceEach(seed.rates, SeedRates)
        /\ OnceEach(seed.allocations, SeedAllocations)

----------------------------------------------------------------------------
(* Claims about the two rate lookups *)

\* C29: for every rate table, service and employee, the rate that the store's
\* getEffectiveRate resolves is the one that the rate service's getEffectiveRate
\* resolves, also where the service has neither a rate of the employee nor a
\* default rate.
C29_StoreRateIsServiceRate ==
    (probe.fn = "MockDatabase.getEffectiveRate" /\ probe.returned) =>
        probe.out = getEffectiveRate(probe.args.rates, probe.args.serviceId,
                                     probe.args.employeeId)

----------------------------------------------------------------------------
(* Claims about the frontend's auth store *)

\* C30: once logout() has run, the store is unauthenticated, with no user, until
\* a login() called after it succeeds, whatever requests were in flight when
\* logout() ran.
C30_LoggedOutUntilLaterLogin ==
    auth.loggedOut => (~auth.isAuthenticated /\ auth.user = Null)

====
